---------------------------- MODULE Spec2Model ----------------------------
(***************************************************************************)
(* A model of parts of deltachat-core-rust:                                *)
(*   - the ongoing-process token of Context (src/src/context.rs),          *)
(*   - start_io / stop_io and the scheduler slot (src/src/context.rs),     *)
(*   - the Secure-Join handshake (src/src/securejoin.rs),                  *)
(*   - the encryption decision and try_decrypt (src/src/e2ee.rs),          *)
(*   - the rate limiter (src/src/ratelimit.rs).                            *)
(* Each part has its own specification; the variables of the other parts   *)
(* rest at their initial values.                                           *)
(***************************************************************************)
EXTENDS Integers, Sequences, FiniteSets, TLC

VARIABLES
    \* ---- ongoing process (context.rs, RunningState) ----
    running_state,   \* "Stopped" | "Running" | "ShallStop"
    cancel_sender,   \* channel of the Sender held by Running, 0 otherwise
    nchan,           \* number of channels created by alloc_ongoing so far
    queue,           \* queue[c]: signals buffered in channel c (capacity 1)
    rx_open,         \* rx_open[c]: the Receiver of channel c has not been dropped
    got,             \* got[c]: signals taken out of channel c by its Receiver
    stop_blocked,    \* stop_ongoing is suspended in send() holding the write lock
    live,            \* history: successful alloc_ongoing calls not yet freed
    stop_req,        \* history: stop_ongoing was called on the live operation
    holds,           \* history: the tasks whose alloc_ongoing succeeded and
                     \*   that have not called free_ongoing since
    stray,           \* history: a task has called free_ongoing without
                     \*   holding an operation
    ongoing_last,    \* history: the last call, the state it found, its result
    \* ---- IO scheduler slot (context.rs, start_io / stop_io) ----
    configured,      \* what is_configured() answers
    scheduler,       \* the slot: 0 for None, else the Scheduler stored
    sched_lock,      \* the task holding the slot's write lock, 0 if free
    io_pc,           \* io_pc[t]: where task t is inside start_io / stop_io
    taken,           \* taken[t]: the Scheduler task t took out of the slot
    workers,         \* workers[s]: worker loops of Scheduler s still running
    stopping,        \* stopping[s]: Scheduler s was told to stop
    started_epoch,   \* history: Schedulers started since the slot was last emptied
    start_done,      \* history: start_io calls completed since then (saturating)
    start_failed,    \* history: a Scheduler::start failed since then
    io_last,         \* history: the last step and what it found
    \* ---- Secure-Join (securejoin.rs) ----
    alice,           \* the inviter's device: tokens, peerstates, chats, group
    bob,             \* the joiner's device
    net,             \* handshake messages sent so far (any may be delivered)
    delivered,       \* history: the steps delivered, in order
    joins,           \* history: the QR codes the joiner scanned, in order
    sj_done,         \* history: QR codes whose auth token was redeemed
    inviter_log,     \* history: the inviter progress events emitted, in order
    sj_out,          \* what the last call did: result, messages, events, info
    \* ---- outbound encryption (e2ee.rs, EncryptHelper) ----
    prefer_encrypt,  \* EncryptHelper.prefer_encrypt: the own preference
    min_verified,    \* the verification level the chat asks of recipient keys
    peerstates,      \* the (Option<Peerstate>, addr) list of the recipients
    enc_last,        \* history: the last call, its arguments, its result
    \* ---- inbound decryption (e2ee.rs, try_decrypt) ----
    peerstate_db,    \* the acpeerstates table: address -> Option<Peerstate>
    dec_last,        \* history: what the last try_decrypt call did
    mime_mail,       \* the MIME tree of the message as it is now
    mime_env,        \* history: the MIME tree of the message as it was sent
    mime_path,       \* history: what the relays did to the message
    mime_out,        \* what decrypt_if_autocrypt_message made of the message
    \* ---- rate limiter (ratelimit.rs, Ratelimit) ----
    last_update,     \* Ratelimit.last_update: a SystemTime
    current_value,   \* Ratelimit.current_value: an f64
    clock,           \* what SystemTime::now() answers
    from_secs_f64,   \* the Duration::from_secs_f64 of the standard library used
    rl_sends,        \* history: calls of send so far
    rl_ticks,        \* history: times the clock moved on between calls
    rl_last,         \* history: the last call, the bucket it found, its result
    rl_mark,         \* history: an earlier call since the last send, its
                     \*   clock reading and the consumption it left
    rl_sent,         \* history: when the last send was made, and whether
                     \*          can_send would have allowed it
    \* ---- location streaming (location.rs) ----
    loc_now,         \* what time() answers, in seconds
    loc_chats,       \* the streaming window of each chat (table chats)
    locations,       \* the table locations, in the order of the row ids
    loc_pc,          \* location_loop: "off" while IO is not started,
                     \*   "run" before maybe_send_locations, "wait" in the timeout
    loc_wake,        \* the time at which the wait of location_loop ends
    loc_interrupt,   \* a signal is in the interrupt channel of the loop
    loc_posted,      \* history: when the loop last posted LocationOnly
    loc_log,         \* history: the system messages put into each chat
    loc_calls,       \* history: calls of the location API so far
    loc_ticks,       \* history: times the clock moved on
    loc_out,         \* history: the last call, what it found, what it did
    kml_last,        \* history: the last call of the KML codec
    loc_scan         \* maybe_send_locations under way: its rows, now, next_event

ongoingVars == <<running_state, cancel_sender, nchan, queue, rx_open, got,
                 stop_blocked, live, stop_req, holds, stray, ongoing_last>>
ioVars == <<configured, scheduler, sched_lock, io_pc, taken, workers, stopping,
            started_epoch, start_done, start_failed, io_last>>
sjVars == <<alice, bob, net, delivered, joins, sj_done, inviter_log, sj_out>>
encVars == <<prefer_encrypt, min_verified, peerstates, enc_last>>
decVars == <<peerstate_db, dec_last, mime_mail, mime_env, mime_path,
            mime_out>>
rlVars == <<last_update, current_value, clock, from_secs_f64, rl_sends,
           rl_ticks, rl_last, rl_sent, rl_mark>>
locVars == <<loc_now, loc_chats, locations, loc_pc, loc_wake, loc_interrupt,
            loc_posted, loc_log, loc_calls, loc_ticks, loc_out,
            kml_last, loc_scan>>
vars == <<ongoingVars, ioVars, sjVars, encVars, decVars, rlVars, locVars>>

\* What each part leaves alone.
notOngoing == <<ioVars, sjVars, encVars, decVars, rlVars, locVars>>
notIo == <<ongoingVars, sjVars, encVars, decVars, rlVars, locVars>>
notSj == <<ongoingVars, ioVars, encVars, decVars, rlVars, locVars>>
notEnc == <<ongoingVars, ioVars, sjVars, decVars, rlVars, locVars>>
notDec == <<ongoingVars, ioVars, sjVars, encVars, rlVars, locVars>>
notRl == <<ongoingVars, ioVars, sjVars, encVars, decVars, locVars>>
notLoc == <<ongoingVars, ioVars, sjVars, encVars, decVars, rlVars>>

\* ------------------------------------------------------------------ bounds
\* Tasks calling into one Context concurrently.
NTasks == 2
\* alloc_ongoing calls that succeed in one behaviour (each creates a channel).
MaxChans == 3
\* Scheduler instances that can exist at once (ids are reused once joined).
MaxSched == 2
\* The inbox, move-box, sent-box and smtp loops of one Scheduler.
NumWorkers == 4
\* Capacity of the cancel channel: channel::bounded(1).
ChanCap == 1

Tasks == 1..NTasks
Chans == 1..MaxChans
Scheds == 1..MaxSched

\* ===================================================================
\*                 Ongoing process: context.rs 81-98, 293-337
\* ===================================================================

RunningStates == {"Stopped", "Running", "ShallStop"}

NoCall == [op |-> "none", pre |-> "Stopped", ok |-> TRUE, chan |-> 0,
           sent |-> 0, rx |-> FALSE]

OngoingIdle ==
    /\ running_state = "Stopped"
    /\ cancel_sender = 0
    /\ nchan = 0
    /\ queue = [c \in Chans |-> 0]
    /\ rx_open = [c \in Chans |-> FALSE]
    /\ got = [c \in Chans |-> 0]
    /\ stop_blocked = FALSE
    /\ live = 0
    /\ stop_req = FALSE
    /\ holds = {}
    /\ stray = FALSE
    /\ ongoing_last = NoCall

\* Signals ever put into channel c.
Sent(c) == queue[c] + got[c]

\* Every call takes running_state's lock; a stop_ongoing suspended in send()
\* keeps it.
LockFree == ~stop_blocked

\* A guard that forgets ShallStop.
AllocGuardNotRunning(s) == s # "Running"

\* ensure!(matches!(*s, RunningState::Stopped), ...)
AllocGuard(s) == s = "Stopped"

\* Mutant: one channel, made once, serves every operation.
BoundedOnce(n) == 1

\* channel::bounded(1) when n channels have been made: the next channel.
Bounded(n) == n + 1

\* alloc_ongoing: fails unless Stopped; else a new bounded(1) channel, whose
\* Sender goes into Running and whose Receiver is returned.
AllocOngoing(t) ==
    /\ LockFree
    /\ IF AllocGuard(running_state)
       THEN /\ nchan < MaxChans
            /\ nchan' = nchan + 1
            /\ running_state' = "Running"
            /\ cancel_sender' = Bounded(nchan)
            /\ rx_open' = [rx_open EXCEPT ![Bounded(nchan)] = TRUE]
            /\ live' = live + 1
            /\ stop_req' = FALSE
            /\ holds' = holds \cup {t}
            /\ ongoing_last' = [op |-> "alloc", pre |-> running_state, ok |-> TRUE,
                                chan |-> Bounded(nchan), sent |-> 0, rx |-> TRUE]
       ELSE /\ ongoing_last' = [op |-> "alloc", pre |-> running_state, ok |-> FALSE,
                                chan |-> 0, sent |-> 0, rx |-> FALSE]
            /\ UNCHANGED <<nchan, running_state, cancel_sender, rx_open, live,
                           stop_req, holds>>
    /\ UNCHANGED <<queue, got, stop_blocked, stray, notOngoing>>

\* free_ongoing: *s = RunningState::Stopped, whatever the state and the caller.
FreeOngoing(t) ==
    /\ LockFree
    /\ running_state' = "Stopped"
    /\ cancel_sender' = 0
    /\ live' = 0
    /\ stop_req' = FALSE
    /\ holds' = holds \ {t}
    /\ stray' = (stray \/ t \notin holds)
    /\ ongoing_last' = [op |-> "free", pre |-> running_state, ok |-> TRUE,
                        chan |-> cancel_sender, sent |-> 0, rx |-> FALSE]
    /\ UNCHANGED <<nchan, queue, rx_open, got, stop_blocked, notOngoing>>

\* A stop_ongoing that resets the state itself.
StopTargetStopped == "Stopped"

\* The state stop_ongoing leaves behind when it found Running.
StopTarget == "ShallStop"

\* stop_ongoing: in Running, send(()) on the cancel channel (an error when the
\* Receiver is gone, a wait while the channel is full), then ShallStop; in the
\* other states nothing.
StopOngoing(t) ==
    /\ LockFree
    /\ IF running_state = "Running"
       THEN LET c == cancel_sender IN
            IF ~rx_open[c]
            THEN \* send() fails: warn!, the state changes all the same
                 /\ running_state' = StopTarget
                 /\ cancel_sender' = 0
                 /\ ongoing_last' = [op |-> "stop", pre |-> running_state, ok |-> FALSE,
                                     chan |-> c, sent |-> 0, rx |-> FALSE]
                 /\ UNCHANGED <<queue, stop_blocked>>
            ELSE IF queue[c] >= ChanCap
            THEN \* send() waits for room, the write lock held
                 /\ stop_blocked' = TRUE
                 /\ ongoing_last' = [op |-> "stop", pre |-> running_state, ok |-> FALSE,
                                     chan |-> c, sent |-> 0, rx |-> TRUE]
                 /\ UNCHANGED <<running_state, cancel_sender, queue>>
            ELSE /\ queue' = [queue EXCEPT ![c] = @ + 1]
                 /\ running_state' = StopTarget
                 /\ cancel_sender' = 0
                 /\ ongoing_last' = [op |-> "stop", pre |-> running_state, ok |-> TRUE,
                                     chan |-> c, sent |-> 1, rx |-> TRUE]
                 /\ UNCHANGED stop_blocked
       ELSE /\ ongoing_last' = [op |-> "stop", pre |-> running_state, ok |-> TRUE,
                                chan |-> 0, sent |-> 0, rx |-> FALSE]
            /\ UNCHANGED <<running_state, cancel_sender, queue, stop_blocked>>
    /\ stop_req' = (stop_req \/ live > 0)
    /\ UNCHANGED <<nchan, rx_open, got, live, holds, stray, notOngoing>>

\* An answer that is true only once a stop was requested.
ShallStopResultOnlyShallStop(s) == s = "ShallStop"

\* What shall_stop_ongoing answers in state s.
ShallStopResult(s) == s # "Running"

\* shall_stop_ongoing: a read of the state.
ShallStopOngoing(t) ==
    /\ LockFree
    /\ ongoing_last' = [op |-> "shall_stop", pre |-> running_state,
                        ok |-> ShallStopResult(running_state),
                        chan |-> cancel_sender, sent |-> 0, rx |-> FALSE]
    /\ UNCHANGED <<running_state, cancel_sender, nchan, queue, rx_open, got,
                   stop_blocked, live, stop_req, holds, stray, notOngoing>>

\* The holder of a Receiver polls it: try_recv() takes a buffered signal or
\* fails on an empty channel.
TryRecv(c) ==
    /\ c <= nchan
    /\ rx_open[c]
    /\ IF queue[c] > 0
       THEN /\ queue' = [queue EXCEPT ![c] = @ - 1]
            /\ got' = [got EXCEPT ![c] = @ + 1]
            /\ ongoing_last' = [op |-> "recv", pre |-> running_state, ok |-> TRUE,
                                chan |-> c, sent |-> 0, rx |-> TRUE]
       ELSE /\ ongoing_last' = [op |-> "recv", pre |-> running_state, ok |-> FALSE,
                                chan |-> c, sent |-> 0, rx |-> TRUE]
            /\ UNCHANGED <<queue, got>>
    /\ UNCHANGED <<running_state, cancel_sender, nchan, rx_open, stop_blocked,
                   live, stop_req, holds, stray, notOngoing>>

\* The holder of a Receiver drops it (its future ended or was cancelled).
DropReceiver(c) ==
    /\ c <= nchan
    /\ rx_open[c]
    /\ rx_open' = [rx_open EXCEPT ![c] = FALSE]
    /\ ongoing_last' = [op |-> "drop", pre |-> running_state, ok |-> TRUE,
                        chan |-> c, sent |-> 0, rx |-> FALSE]
    /\ UNCHANGED <<running_state, cancel_sender, nchan, queue, got, stop_blocked,
                   live, stop_req, holds, stray, notOngoing>>

\* ===================================================================
\*            start_io / stop_io: context.rs 58, 205-234
\* ===================================================================

IoIdle ==
    /\ configured = TRUE
    /\ scheduler = 0
    /\ sched_lock = 0
    /\ io_pc = [t \in Tasks |-> "idle"]
    /\ taken = [t \in Tasks |-> 0]
    /\ workers = [s \in Scheds |-> 0]
    /\ stopping = [s \in Scheds |-> FALSE]
    /\ started_epoch = 0
    /\ start_done = 0
    /\ start_failed = FALSE
    /\ io_last = [op |-> "none", task |-> 0, slot |-> 0, sched |-> 0, new |-> 0]

\* A Scheduler id not in use: not stored, not held by a stop_io, no worker left.
FreeScheds ==
    {s \in Scheds : /\ scheduler # s
                    /\ workers[s] = 0
                    /\ \A t \in Tasks : taken[t] # s}

NewSched == CHOOSE s \in FreeScheds : \A r \in FreeScheds : s <= r

Sat(n) == IF n >= 2 THEN 2 ELSE n + 1

\* start_io up to the lock: `if let Ok(false) = self.is_configured().await`
\* returns early; an Err(_) of is_configured does not. Then the task waits for
\* the slot's write lock.
StartIoBegin(t, db_ok) ==
    /\ io_pc[t] = "idle"
    /\ IF db_ok /\ ~configured
       THEN /\ io_last' = [op |-> "start_unconfigured", task |-> t,
                           slot |-> scheduler, sched |-> 0, new |-> 0]
            /\ UNCHANGED io_pc
       ELSE /\ io_pc' = [io_pc EXCEPT ![t] = "start_wait"]
            /\ io_last' = [op |-> "start_begin", task |-> t,
                           slot |-> scheduler, sched |-> 0, new |-> 0]
    /\ UNCHANGED <<configured, scheduler, sched_lock, taken, workers, stopping,
                   started_epoch, start_done, start_failed, notIo>>

\* self.inner.scheduler.write().await
StartIoLock(t) ==
    /\ io_pc[t] = "start_wait"
    /\ sched_lock = 0
    /\ scheduler # 0 \/ FreeScheds # {}
    /\ sched_lock' = t
    /\ io_pc' = [io_pc EXCEPT ![t] = "start_locked"]
    /\ io_last' = [op |-> "start_lock", task |-> t, slot |-> scheduler,
                   sched |-> 0, new |-> 0]
    /\ UNCHANGED <<configured, scheduler, taken, workers, stopping,
                   started_epoch, start_done, start_failed, notIo>>

\* A start_io that does not look at the slot.
StartsSchedulerAlways(slot) == TRUE

\* Whether start_io, holding the lock, starts a Scheduler: `if lock.is_none()`.
StartsScheduler(slot) == slot = 0

\* Under the lock: a Scheduler is started only into an empty slot;
\* Scheduler::start either fails (error!, the slot stays empty) or spawns the
\* worker loops and the Scheduler is stored. The guard is dropped on return.
StartIoRun(t, start_ok) ==
    /\ io_pc[t] = "start_locked"
    /\ IF StartsScheduler(scheduler)
       THEN IF start_ok
            THEN /\ FreeScheds # {}
                 /\ scheduler' = NewSched
                 /\ workers' = [workers EXCEPT ![NewSched] = NumWorkers]
                 /\ stopping' = [stopping EXCEPT ![NewSched] = FALSE]
                 /\ started_epoch' = started_epoch + 1
                 /\ io_last' = [op |-> "start", task |-> t, slot |-> scheduler,
                                sched |-> NewSched, new |-> NumWorkers]
                 /\ UNCHANGED start_failed
            ELSE /\ start_failed' = TRUE
                 /\ io_last' = [op |-> "start", task |-> t, slot |-> scheduler,
                                sched |-> 0, new |-> 0]
                 /\ UNCHANGED <<scheduler, workers, stopping, started_epoch>>
       ELSE /\ io_last' = [op |-> "start", task |-> t, slot |-> scheduler,
                           sched |-> 0, new |-> 0]
            /\ UNCHANGED <<scheduler, workers, stopping, started_epoch, start_failed>>
    /\ start_done' = Sat(start_done)
    /\ sched_lock' = 0
    /\ io_pc' = [io_pc EXCEPT ![t] = "idle"]
    /\ UNCHANGED <<configured, taken, notIo>>

\* A stop_io whose guard drops right after take().
LockReleasedAfterTake(t) == 0

\* The lock's holder after stop_io took the Scheduler out: the guard is a
\* temporary of the `if let` scrutinee and lives to the end of the statement,
\* across scheduler.stop().await.
LockWhileStopping(t) == t

\* stop_io: take the write lock and take() the slot. With None the call is
\* over; with Some(scheduler), Scheduler::stop begins: the loops are told to
\* stop and interrupted.
StopIoTake(t) ==
    /\ io_pc[t] = "idle"
    /\ sched_lock = 0
    /\ scheduler' = 0
    /\ started_epoch' = 0
    /\ start_done' = 0
    /\ start_failed' = FALSE
    /\ IF scheduler = 0
       THEN /\ io_last' = [op |-> "stop_none", task |-> t, slot |-> 0,
                           sched |-> 0, new |-> 0]
            /\ UNCHANGED <<sched_lock, io_pc, taken, stopping>>
       ELSE /\ sched_lock' = LockWhileStopping(t)
            /\ taken' = [taken EXCEPT ![t] = scheduler]
            /\ stopping' = [stopping EXCEPT ![scheduler] = TRUE]
            /\ io_pc' = [io_pc EXCEPT ![t] = "stop_join"]
            /\ io_last' = [op |-> "stop_take", task |-> t, slot |-> scheduler,
                           sched |-> scheduler, new |-> 0]
    /\ UNCHANGED <<configured, workers, notIo>>

\* A worker loop of a Scheduler that was told to stop ends.
WorkerExit(s) ==
    /\ stopping[s]
    /\ workers[s] > 0
    /\ workers' = [workers EXCEPT ![s] = @ - 1]
    /\ io_last' = [op |-> "worker_exit", task |-> 0, slot |-> scheduler,
                   sched |-> s, new |-> 0]
    /\ UNCHANGED <<configured, scheduler, sched_lock, io_pc, taken, stopping,
                   started_epoch, start_done, start_failed, notIo>>

\* Scheduler::stop has joined every loop; stop_io returns and the guard drops.
StopIoDone(t) ==
    /\ io_pc[t] = "stop_join"
    /\ workers[taken[t]] = 0
    /\ sched_lock' = (IF sched_lock = t THEN 0 ELSE sched_lock)
    /\ taken' = [taken EXCEPT ![t] = 0]
    /\ stopping' = [stopping EXCEPT ![taken[t]] = FALSE]
    /\ io_pc' = [io_pc EXCEPT ![t] = "idle"]
    /\ io_last' = [op |-> "stop_done", task |-> t, slot |-> scheduler,
                   sched |-> taken[t], new |-> 0]
    /\ UNCHANGED <<configured, scheduler, workers, started_epoch, start_done,
                   start_failed, notIo>>


\* ===================================================================
\*                  Secure-Join: securejoin.rs
\* ===================================================================

\* ---- keys, addresses, header values ----
NoKey == "none"          \* no key, no fingerprint
NoHdr == "none"          \* the header is absent
BadFp == "bad"           \* a Secure-Join-Fingerprint value that does not parse
Keys == {"KA", "KB", "KC", "KE"}
Addrs == {"alice", "bob", "claire"}
SelfKey(a) == IF a = "alice" THEN "KA" ELSE "KB"
OtherAddr(a) == IF a = "alice" THEN "bob" ELSE "alice"
TheGroup == "g1"         \* grpid of the inviter's group
QrKinds == {"contact", TheGroup}

\* The tokens token::lookup_or_new issues for a QR code of kind q.
InviteNumberOf(q) == IF q = "contact" THEN "i0" ELSE "i1"
AuthOf(q) == IF q = "contact" THEN "s0" ELSE "s1"

VgSteps == {"vg-request", "vg-auth-required", "vg-request-with-auth",
            "vg-member-added", "vg-member-added-received"}
VcSteps == {"vc-request", "vc-auth-required", "vc-request-with-auth",
            "vc-contact-confirm", "vc-contact-confirm-received"}

\* step.starts_with("vg-")
JoinVg(step) == step \in VgSteps

\* ---- peerstates (peerstate.rs) ----
NoPeer == [pk |-> NoKey, vk |-> NoKey, prefer |-> "none"]

\* Contact::is_verified: a verified key is stored.
IsVerified(dev, c) == dev.peers[c].vk # NoKey

\* Peerstate::apply_header / Peerstate::from_header: the header's key and
\* preference; a verified key with another fingerprint is cleared.
ApplyHeader(p, key) ==
    [pk |-> key,
     vk |-> IF p.vk # NoKey /\ p.vk # key THEN NoKey ELSE p.vk,
     prefer |-> "Mutual"]

\* ---- a device ----
NoBob == [fp |-> NoKey, addr |-> "none", inv |-> NoHdr, auth |-> NoHdr,
          grp |-> NoHdr, next |-> "none"]

NewDevice(a, grps) ==
    [addr |-> a, key |-> SelfKey(a),
     inv |-> {}, auth |-> {},
     peers |-> [x \in Addrs |-> NoPeer],
     origin |-> [x \in Addrs |-> 0],
     chat |-> [x \in Addrs |-> "none"],
     info |-> [x \in Addrs |-> {}],
     groups |-> grps, ginfo |-> {}, members |-> {},
     bobstate |-> NoBob,
     \* an input of the call under way: the Peerstate::save_to_db of
     \* mark_peer_as_verified fails
     save_fails |-> FALSE]

OriginSecurejoinInvited == 1
OriginSecurejoinJoined == 2

\* Contact::scaleup_origin_by_id: the origin only grows.
ScaleupOrigin(dev, c, o) ==
    [dev EXCEPT !.origin[c] = IF @ < o THEN o ELSE @]

\* ChatIdBlocked::get_for_contact: the 1:1 chat as it is, or a new one,
\* hidden (Blocked::Yes) or visible (Blocked::Not).
GetForContact(dev, c, hidden) ==
    IF dev.chat[c] = "none"
    THEN [dev EXCEPT !.chat[c] = IF hidden THEN "hidden" ELSE "visible"]
    ELSE dev

\* ChatId::create_for_contact: the 1:1 chat, created or unblocked.
CreateForContact(dev, c) == [dev EXCEPT !.chat[c] = "visible"]

\* chat::add_info_msg into the 1:1 chat with c, or into the group chat.
AddInfoMsg(dev, chat, kind) ==
    IF chat = TheGroup
    THEN [dev EXCEPT !.ginfo = @ \cup {kind}]
    ELSE [dev EXCEPT !.info[chat] = @ \cup {kind}]

\* ---- messages ----
\* step: Secure-Join; ac: key of the Autocrypt header; encto: the key the body
\* is encrypted to; sig: the key that signed it; inv, auth, fp, grp: the
\* Secure-Join-Invitenumber, -Auth, -Fingerprint and -Group headers.
Msg(step, from, to, ac, encto, sig, inv, auth, fp, grp) ==
    [step |-> step, from |-> from, to |-> to, ac |-> ac, encto |-> encto,
     sig |-> sig, inv |-> inv, auth |-> auth, fp |-> fp, grp |-> grp]

\* What a call did besides changing the device.
Res(dev, ret, sent, progress, info) ==
    [dev |-> dev, ret |-> ret, sent |-> sent, progress |-> progress, info |-> info]

\* ---- the receive pipeline in front of the handlers (e2ee.rs) ----

\* try_decrypt (e2ee.rs 166-193, 254-261): an Autocrypt header replaces the
\* key of the sender's peerstate, or creates the peerstate; an undecrypted
\* message without a header degrades an existing peerstate to Reset.
\* Messages arrive with increasing times, and no two addresses share a key,
\* so the peerstate found by fingerprint or address is the sender's.
ApplyAutocrypt(dev, m) ==
    LET p == dev.peers[m.from] IN
    IF m.ac # NoKey
    THEN [dev EXCEPT !.peers[m.from] = ApplyHeader(p, m.ac)]
    ELSE IF p.pk # NoKey /\ m.encto # dev.key
    THEN [dev EXCEPT !.peers[m.from].prefer = "Reset"]
    ELSE dev

\* MimeMessage::was_encrypted: the body decrypted with the own secret key.
WasEncrypted(dev, m) == m.encto = dev.key

\* try_decrypt (e2ee.rs 196-204): signatures are validated with the public
\* key of the sender's peerstate, after the header was applied.
ValidationKey(dev, m) == ApplyAutocrypt(dev, m).peers[m.from].pk

\* MimeMessage::signatures: the fingerprints with a valid signature.
Signatures(dev, m) ==
    IF WasEncrypted(dev, m) /\ m.sig # NoKey /\ m.sig = ValidationKey(dev, m)
    THEN {m.sig}
    ELSE {}

\* ---- securejoin.rs helpers ----

\* Mutant: the signatures are not looked at.
EncryptedOnly(enc, sigs, expected) == enc

\* encrypted_and_signed (securejoin.rs 661-683)
EncryptedAndSigned(enc, sigs, expected) ==
    IF ~enc THEN FALSE
    ELSE IF expected # NoKey THEN expected \in sigs
    ELSE FALSE

\* Mutant: the stored key is never found equal.
FingerprintNeverEqualsSender(dev, fp, c) == FALSE

\* fingerprint_equals_sender (securejoin.rs 206-237)
FingerprintEqualsSender(dev, fp, c) ==
    /\ dev.peers[c].pk # NoKey
    /\ dev.peers[c].pk = fp

\* Peerstate::from_fingerprint: the addresses whose peerstate has this key.
FromFingerprint(dev, fp) == {a \in Addrs : dev.peers[a].pk # NoKey /\ dev.peers[a].pk = fp}

\* Mutant: set_verified is reported but the verified key is not stored.
MarkPeerAsVerifiedUnsaved(dev, fp) ==
    [ok |-> FromFingerprint(dev, fp) # {}, dev |-> dev]

\* mark_peer_as_verified (securejoin.rs 635-655): [ok, dev].  The result of
\* save_to_db goes through unwrap_or_default: when the save fails nothing
\* is stored and Ok is returned all the same.
MarkPeerAsVerified(dev, fp) ==
    IF FromFingerprint(dev, fp) # {}
    THEN LET a == CHOOSE x \in FromFingerprint(dev, fp) : TRUE IN
         [ok |-> TRUE,
          dev |-> IF dev.save_fails THEN dev
                  ELSE [dev EXCEPT !.peers[a] = [pk |-> @.pk, vk |-> fp,
                                                 prefer |-> "Mutual"]]]
    ELSE [ok |-> FALSE, dev |-> dev]

\* should_encrypt(e2ee_guaranteed = true) and encrypt for one recipient: the
\* peerstate and its key must be there.
CanEncryptTo(dev, c) == dev.peers[c].pk # NoKey

\* The message send_alice_handshake_msg builds (securejoin.rs 177-188).
AliceHandshakeMsg(dev, c, step, fp) ==
    Msg(step, dev.addr, c, dev.key, dev.peers[c].pk, dev.key, NoHdr, NoHdr, fp, NoHdr)

\* send_alice_handshake_msg (securejoin.rs 171-198): the hidden 1:1 chat is
\* looked up or created, then chat::send_msg, which fails when the message
\* cannot be encrypted. [ok, dev, sent]
SendAliceHandshakeMsg(dev, c, step, fp) ==
    LET d1 == GetForContact(dev, c, TRUE) IN
    IF CanEncryptTo(d1, c)
    THEN [ok |-> TRUE, dev |-> d1, sent |-> <<AliceHandshakeMsg(d1, c, step, fp)>>]
    ELSE [ok |-> FALSE, dev |-> d1, sent |-> <<>>]

\* secure_connection_established (securejoin.rs 607-617)
SecureConnectionEstablished(dev, chat) == AddInfoMsg(dev, chat, "verified")

\* could_not_establish_secure_connection into info_chat_id(contact), and the
\* `return Ok(HandshakeMessage::Ignore)` that follows it everywhere.
CouldNotEstablish(dev, c) ==
    Res(AddInfoMsg(GetForContact(dev, c, FALSE), c, "not_verified"),
        "Ignore", <<>>, <<>>, <<<<c, "not_verified">>>>)

\* ---- the inviter's steps (securejoin.rs 296-337, 345-469, 485-516) ----

\* Mutant: token::exists is not asked, any invite number is accepted.
InviteNumberAnyPresent(dev, inv) == inv # NoHdr

\* The Secure-Join-Invitenumber check of {vc,vg}-request (306-316).
InviteNumberAccepted(dev, inv) == inv # NoHdr /\ inv \in dev.inv

\* Mutant: the 1:1 chat is made visible for a group join too.
RequestShowsChatAlways(step) == TRUE

\* `if !join_vg` (323): only setup-contact makes the 1:1 chat visible.
RequestShowsChat(step) == ~JoinVg(step)

\* {vc,vg}-request (296-337)
HandleRequest(dev, m, c) ==
    IF ~InviteNumberAccepted(dev, m.inv)
    THEN Res(dev, "Ignore", <<>>, <<>>, <<>>)
    ELSE LET d1 == IF RequestShowsChat(m.step) THEN CreateForContact(dev, c) ELSE dev
             s == SendAliceHandshakeMsg(d1, c,
                      IF JoinVg(m.step) THEN "vg-auth-required" ELSE "vc-auth-required",
                      NoHdr)
         IN IF s.ok
            THEN Res(s.dev, "Done", s.sent, <<300>>, <<>>)
            ELSE Res(s.dev, "Err", <<>>, <<300>>, <<>>)

\* The Secure-Join-Auth check of {vc,vg}-request-with-auth (389-411).
AuthAccepted(dev, auth) == auth # NoHdr /\ auth \in dev.auth

\* Mutant: the auth token is deleted once it was redeemed.
AuthTokensConsumed(dev, auth) == dev.auth \ {auth}

\* The tokens table after a request-with-auth passed its checks: the handler
\* only reads it (token::exists, 402), the token it used stays stored.
AuthTokensAfterUse(dev, auth) == dev.auth

\* chat::add_contact_to_chat_ex(from_handshake): the contact becomes a member
\* and the member-added message with Secure-Join: vg-member-added goes out.
MemberAddedMsg(dev, c, grp) ==
    Msg("vg-member-added", dev.addr, c, dev.key, dev.peers[c].pk, dev.key,
        NoHdr, NoHdr, NoHdr, grp)

\* What follows the checks of {vc,vg}-request-with-auth (422-468).
RequestWithAuthVerified(dev0, m, c) ==
    LET dev == ScaleupOrigin([dev0 EXCEPT !.auth = AuthTokensAfterUse(dev0, m.auth)],
                             c, OriginSecurejoinInvited) IN
    IF JoinVg(m.step)
    THEN IF m.grp = NoHdr
         THEN Res(dev, "Ignore", <<>>, <<600>>, <<>>)
         ELSE IF m.grp \in dev.groups
         THEN LET d1 == SecureConnectionEstablished(dev, m.grp)
                  d2 == [d1 EXCEPT !.members = @ \cup {c}]
              IN Res(d2, "Ignore", <<MemberAddedMsg(d2, c, m.grp)>>, <<600>>,
                     <<<<m.grp, "verified">>>>)
         ELSE Res(dev, "Err", <<>>, <<600>>, <<>>)
    ELSE LET d1 == SecureConnectionEstablished(GetForContact(dev, c, FALSE), c)
             s == SendAliceHandshakeMsg(d1, c, "vc-contact-confirm", m.fp)
         IN IF s.ok
            THEN Res(s.dev, "Ignore", s.sent, <<600, 1000>>, <<<<c, "verified">>>>)
            ELSE Res(s.dev, "Err", <<>>, <<600>>, <<<<c, "verified">>>>)

\* {vc,vg}-request-with-auth (345-469): the checks, in the code's order.
HandleRequestWithAuth(dev, m, c, enc, sigs) ==
    IF m.fp = NoHdr THEN CouldNotEstablish(dev, c)
    ELSE IF m.fp = BadFp THEN Res(dev, "Err", <<>>, <<>>, <<>>)
    ELSE IF ~EncryptedAndSigned(enc, sigs, m.fp) THEN CouldNotEstablish(dev, c)
    ELSE IF ~FingerprintEqualsSender(dev, m.fp, c) THEN CouldNotEstablish(dev, c)
    ELSE IF ~AuthAccepted(dev, m.auth) THEN CouldNotEstablish(dev, c)
    ELSE LET mv == MarkPeerAsVerified(dev, m.fp) IN
         IF ~mv.ok THEN CouldNotEstablish(dev, c)
         ELSE RequestWithAuthVerified(mv.dev, m, c)

\* Mutant: the two progress events of vg-member-added-received swapped.
ReceivedProgressSwapped == <<1000, 800>>

\* inviter_progress! on vg-member-added-received (498-499).
ReceivedProgress == <<800, 1000>>

\* vg-member-added-received, vc-contact-confirm-received (485-516)
HandleReceived(dev, m, c) ==
    IF ~IsVerified(dev, c) THEN Res(dev, "Ignore", <<>>, <<>>, <<>>)
    ELSE IF JoinVg(m.step) THEN Res(dev, "Ignore", <<>>, ReceivedProgress, <<>>)
    ELSE Res(dev, "Ignore", <<>>, <<>>, <<>>)

\* ---- the joiner's steps (bob.rs, bobstate.rs) ----

\* The invite of a scanned QR code (QrInvite).
Invite(fp, addr, inv, auth, grp) ==
    [fp |-> fp, addr |-> addr, inv |-> inv, auth |-> auth, grp |-> grp]

BobPrefix(st) == IF st.grp = NoHdr THEN "vc" ELSE "vg"

\* BobState::send_handshake_message: the request goes out in the clear, the
\* request-with-auth and the -received message encrypted to the inviter.
BobRequestMsg(dev, st) ==
    Msg(IF st.grp = NoHdr THEN "vc-request" ELSE "vg-request",
        dev.addr, st.addr, dev.key, NoKey, NoKey, st.inv, NoHdr, NoHdr, NoHdr)

BobRequestWithAuthMsg(dev, st) ==
    Msg(IF st.grp = NoHdr THEN "vc-request-with-auth" ELSE "vg-request-with-auth",
        dev.addr, st.addr, dev.key, dev.peers[st.addr].pk, dev.key,
        NoHdr, st.auth, dev.key, st.grp)

BobReceivedMsg(dev, st) ==
    Msg(IF st.grp = NoHdr THEN "vc-contact-confirm-received" ELSE "vg-member-added-received",
        dev.addr, st.addr, dev.key, dev.peers[st.addr].pk, dev.key,
        NoHdr, NoHdr, st.fp, st.grp)

\* Mutant: a pending joiner state is kept, the new one is dropped.
ReplaceBobStateKeepsOld(old, new) == IF old # NoBob THEN old ELSE new

\* BobState::start_protocol: the new joiner state takes the place of any
\* state that is still pending.
ReplaceBobState(old, new) == new

\* bob::start_protocol: the joiner state replaces an earlier one; the first
\* message is request-with-auth when the inviter's key is already known. It
\* returns the chat of the join: the 1:1 chat, or the group chat.
StartProtocol(dev, qr) ==
    LET c == qr.addr
        d1 == IF qr.grp = NoHdr THEN CreateForContact(dev, c)
              ELSE GetForContact(dev, c, TRUE)
        known == FingerprintEqualsSender(d1, qr.fp, c)
        st == [fp |-> qr.fp, addr |-> c, inv |-> qr.inv, auth |-> qr.auth,
               grp |-> qr.grp,
               next |-> IF known THEN "ContactConfirm" ELSE "AuthRequired"]
        d2 == [d1 EXCEPT !.bobstate = ReplaceBobState(@, st),
                         !.groups = IF qr.grp = NoHdr THEN @ ELSE @ \cup {qr.grp}]
        chat == IF qr.grp = NoHdr THEN c ELSE qr.grp
    IN IF known
       THEN Res(d2, chat, <<BobRequestWithAuthMsg(d2, st)>>, <<400>>, <<>>)
       ELSE Res(d2, chat, <<BobRequestMsg(d2, st)>>, <<>>, <<>>)

\* BobState::notify_aborted after BobHandshakeStage::Terminated: the joiner
\* state is gone, progress 0, the not-verified message in the 1:1 chat.
BobTerminated(dev, st) ==
    Res(AddInfoMsg(GetForContact([dev EXCEPT !.bobstate = NoBob], st.addr, FALSE),
                   st.addr, "not_verified"),
        "Ignore", <<>>, <<0>>, <<<<st.addr, "not_verified">>>>)

\* bob::handle_auth_required
HandleAuthRequired(dev, m, enc, sigs) ==
    LET st == dev.bobstate IN
    IF st = NoBob \/ st.next # "AuthRequired" \/ JoinVg(m.step) # (st.grp # NoHdr)
    THEN Res(dev, "Ignore", <<>>, <<>>, <<>>)
    ELSE IF ~EncryptedAndSigned(enc, sigs, st.fp) THEN BobTerminated(dev, st)
    ELSE IF ~FingerprintEqualsSender(dev, st.fp, st.addr) THEN BobTerminated(dev, st)
    ELSE LET d1 == [dev EXCEPT !.bobstate.next = "ContactConfirm"] IN
         Res(d1, "Done", <<BobRequestWithAuthMsg(d1, st)>>, <<400>>, <<>>)

\* bob::handle_contact_confirm
HandleContactConfirm(dev, m, enc, sigs) ==
    LET st == dev.bobstate
        retval == IF st.grp # NoHdr THEN "Propagate" ELSE "Ignore"
    IN
    IF st.next # "ContactConfirm" \/ JoinVg(m.step) # (st.grp # NoHdr)
    THEN Res(dev, retval, <<>>, <<>>, <<>>)
    ELSE IF ~EncryptedAndSigned(enc, sigs, st.fp) THEN BobTerminated(dev, st)
    ELSE LET mv == MarkPeerAsVerified(dev, st.fp) IN
         IF ~mv.ok THEN Res(dev, "Err", <<>>, <<>>, <<>>)
         ELSE LET chat == IF st.grp # NoHdr THEN st.grp ELSE st.addr
                  d1 == ScaleupOrigin(mv.dev, st.addr, OriginSecurejoinJoined)
                  d2 == SecureConnectionEstablished([d1 EXCEPT !.bobstate = NoBob], chat)
              IN Res(d2, retval, <<BobReceivedMsg(d1, st)>>, <<1000>>,
                     <<<<chat, "verified">>>>)

\* ---- handle_securejoin_handshake (securejoin.rs 276-522) ----
HandleSecurejoinHandshake(dev, m, c, enc, sigs) ==
    CASE m.step \in {"vg-request", "vc-request"} -> HandleRequest(dev, m, c)
      [] m.step \in {"vg-auth-required", "vc-auth-required"} ->
             HandleAuthRequired(dev, m, enc, sigs)
      [] m.step \in {"vg-request-with-auth", "vc-request-with-auth"} ->
             HandleRequestWithAuth(dev, m, c, enc, sigs)
      [] m.step \in {"vg-member-added", "vc-contact-confirm"} ->
             IF dev.bobstate # NoBob
             THEN HandleContactConfirm(dev, m, enc, sigs)
             ELSE Res(dev, IF JoinVg(m.step) THEN "Propagate" ELSE "Ignore",
                      <<>>, <<>>, <<>>)
      [] m.step \in {"vg-member-added-received", "vc-contact-confirm-received"} ->
             HandleReceived(dev, m, c)
      [] OTHER -> Res(dev, "Ignore", <<>>, <<>>, <<>>)

\* ---- observe_securejoin_on_other_device (securejoin.rs 541-605) ----
ObservedSteps == {"vg-member-added", "vc-contact-confirm",
                  "vg-member-added-received", "vc-contact-confirm-received"}

\* Mutant: the observer accepts without the encryption check.
ObserveCheckSkipped(dev, enc, sigs) == TRUE

\* The encryption check of the observer (559-563): the own fingerprint.
ObserveCheck(dev, enc, sigs) == EncryptedAndSigned(enc, sigs, dev.key)

\* The disposition of an accepted observed message (597-601).
ObserveReturn(step) == IF step = "vg-member-added" THEN "Propagate" ELSE "Ignore"

ObserveSecurejoinOnOtherDevice(dev, m, c, enc, sigs) ==
    IF m.step \notin ObservedSteps THEN Res(dev, "Ignore", <<>>, <<>>, <<>>)
    ELSE IF ~ObserveCheck(dev, enc, sigs) THEN CouldNotEstablish(dev, c)
    ELSE IF m.fp = NoHdr THEN CouldNotEstablish(dev, c)
    ELSE IF m.fp = BadFp THEN Res(dev, "Err", <<>>, <<>>, <<>>)
    ELSE LET mv == MarkPeerAsVerified(dev, m.fp) IN
         IF ~mv.ok THEN CouldNotEstablish(dev, c)
         ELSE Res(mv.dev, ObserveReturn(m.step), <<>>, <<>>, <<>>)

\* ---- receiving one message (receive_imf) ----
\* The Autocrypt header is applied and the signatures are validated before
\* the Secure-Join handling; an incoming message goes to the handshake
\* handler with its sender, a self-sent one to the observer with its
\* recipient.
ReceiveImf(dev, m) ==
    LET d1 == ApplyAutocrypt(dev, m)
        enc == WasEncrypted(dev, m)
        sigs == Signatures(dev, m)
    IN IF m.from = dev.addr
       THEN ObserveSecurejoinOnOtherDevice(d1, m, m.to, enc, sigs)
       ELSE HandleSecurejoinHandshake(d1, m, m.from, enc, sigs)

\* dc_get_securejoin_qr (securejoin.rs 54-128): token::lookup_or_new returns
\* the stored token of the namespace and group, or stores a new one.
DcGetSecurejoinQr(dev, q) ==
    [dev |-> [dev EXCEPT !.inv = @ \cup {InviteNumberOf(q)},
                         !.auth = @ \cup {AuthOf(q)}],
     qr |-> Invite(dev.key, dev.addr, InviteNumberOf(q), AuthOf(q),
                   IF q = "contact" THEN NoHdr ELSE q)]

\* ---- the messages a device is fed ----
InvVals == {NoHdr, "i0", "i1"}
AuthVals == {NoHdr, "s0", "s1"}
FpVals == {NoHdr, BadFp, "KB", "KE"}
GrpVals == {NoHdr, TheGroup, "gx"}

\* In the clear, or encrypted to the recipient and signed by nobody or by
\* one of the signers.
Crypt(own, signers) ==
    {[encto |-> NoKey, sig |-> NoKey]} \cup
    {[encto |-> own, sig |-> k] : k \in {NoKey} \cup signers}

\* The same for a step whose handler does not look at the signatures.
CryptUnread(own, signer) ==
    {[encto |-> NoKey, sig |-> NoKey], [encto |-> own, sig |-> signer]}

\* Autocrypt headers on mail from bob's address: none, bob's key, another's.
BobHeaders == {NoKey, "KB", "KE"}

BobMsg(s, ac, e, inv, auth, fp, grp) ==
    Msg(s, "bob", "alice", ac, e.encto, e.sig, inv, auth, fp, grp)

\* Every handshake message bob's address can deliver to alice; the headers a
\* step does not read are left out.
RequestMsgs ==
    {BobMsg(s, ac, e, inv, NoHdr, NoHdr, NoHdr) :
        s \in {"vc-request", "vg-request"}, ac \in BobHeaders,
        e \in CryptUnread("KA", "KB"), inv \in InvVals}

RequestWithAuthMsgs ==
    {BobMsg("vc-request-with-auth", ac, e, NoHdr, auth, fp, NoHdr) :
        ac \in BobHeaders, e \in Crypt("KA", {"KB", "KE"}),
        auth \in AuthVals, fp \in FpVals}
    \cup {BobMsg("vg-request-with-auth", ac, e, NoHdr, auth, fp, grp) :
        ac \in BobHeaders, e \in Crypt("KA", {"KB", "KE"}),
        auth \in AuthVals, fp \in FpVals, grp \in GrpVals}

OtherMsgs ==
    {BobMsg(s, ac, e, NoHdr, NoHdr, NoHdr, NoHdr) :
        s \in {"vc-auth-required", "vg-auth-required", "vc-contact-confirm",
               "vg-member-added", "vc-contact-confirm-received", "xx-unknown"},
        ac \in BobHeaders, e \in CryptUnread("KA", "KB")}
    \cup {BobMsg("vg-member-added-received", ac, e, NoHdr, NoHdr, NoHdr, grp) :
        ac \in BobHeaders, e \in CryptUnread("KA", "KB"), grp \in GrpVals}

InMsgs == RequestMsgs \cup RequestWithAuthMsgs \cup OtherMsgs

\* Every self-sent message alice's other device can show this device; own
\* messages carry the own Autocrypt header.
SelfMsgs ==
    {Msg(s, "alice", "bob", "KA", e.encto, e.sig, NoHdr, NoHdr, fp, NoHdr) :
        s \in ObservedSteps \cup {"vc-auth-required"},
        e \in Crypt("KA", {"KA", "KE"}), fp \in FpVals}

\* Mail from bob's address that reaches the observing device.
PeerMsgs ==
    {BobMsg("xx-unknown", ac, e, NoHdr, NoHdr, NoHdr, NoHdr) :
        ac \in BobHeaders, e \in CryptUnread("KA", "KB")}

\* ---- state ----
NoOut == [op |-> "none", step |-> "none", ret |-> "none", sent |-> <<>>,
          progress |-> <<>>, info |-> <<>>]

\* What the last call did: its disposition, the steps of the messages it
\* sent, its progress events and its info messages. step is the step handled
\* (for the inviter fed any message: the arm of the match it fell into).
Out(op, step, r) ==
    [op |-> op, step |-> step, ret |-> r.ret,
     sent |-> [i \in DOMAIN r.sent |-> r.sent[i].step],
     progress |-> r.progress, info |-> r.info]

\* The arm of handle_securejoin_handshake's match a step falls into.
Arm(step) ==
    CASE step \in {"vg-request", "vc-request"} -> "request"
      [] step \in {"vg-request-with-auth", "vc-request-with-auth"} -> "request-with-auth"
      [] step \in {"vg-member-added-received", "vc-contact-confirm-received"} -> "received"
      [] OTHER -> "other"

SjIdle ==
    /\ alice = NewDevice("alice", {TheGroup})
    /\ bob = NewDevice("bob", {})
    /\ net = {}
    /\ delivered = <<>>
    /\ joins = <<>>
    /\ sj_done = {}
    /\ inviter_log = <<>>
    /\ sj_out = NoOut

\* The QR kinds whose auth token this request-with-auth has just redeemed.
Redeemed(m, r) ==
    IF /\ m.step \in {"vc-request-with-auth", "vg-request-with-auth"}
       /\ 600 \in {r.progress[i] : i \in DOMAIN r.progress}
    THEN {q \in QrKinds : AuthOf(q) = m.auth}
    ELSE {}

\* ---- the inviter alone, fed any message ----
InviterGetQr(q) ==
    /\ alice' = DcGetSecurejoinQr(alice, q).dev
    /\ sj_out' = [NoOut EXCEPT !.op = "qr", !.step = q]
    /\ UNCHANGED <<bob, net, delivered, joins, sj_done, inviter_log, notSj>>

InviterReceive(m) ==
    \E r \in {ReceiveImf(alice, m)} :
    /\ alice' = r.dev
    /\ sj_out' = Out("recv", Arm(m.step), r)
    /\ sj_done' = sj_done \cup Redeemed(m, r)
    /\ UNCHANGED <<bob, net, delivered, joins, inviter_log, notSj>>

\* receive_imf of a message during which the save of mark_peer_as_verified
\* fails or succeeds.
SaveReceive(m, fails) ==
    \E r \in {ReceiveImf([alice EXCEPT !.save_fails = fails], m)} :
    /\ alice' = [r.dev EXCEPT !.save_fails = FALSE]
    /\ sj_out' = Out(IF m.from = alice.addr THEN "observe" ELSE "recv",
                     IF m.from = alice.addr THEN m.step ELSE Arm(m.step), r)
    /\ sj_done' = sj_done \cup Redeemed(m, r)
    /\ UNCHANGED <<bob, net, delivered, joins, inviter_log, notSj>>

\* ---- a second device of alice, shown her self-sent messages ----
ObserverReceive(m) ==
    \E r \in {ReceiveImf(alice, m)} :
    /\ alice' = r.dev
    /\ sj_out' = Out("recv", m.step, r)
    /\ UNCHANGED <<bob, net, delivered, joins, sj_done, inviter_log, notSj>>

ObserverObserve(m) ==
    \E r \in {ReceiveImf(alice, m)} :
    /\ alice' = r.dev
    /\ sj_out' = Out("observe", m.step, r)
    /\ UNCHANGED <<bob, net, delivered, joins, sj_done, inviter_log, notSj>>

\* ---- inviter and joiner over a network that reorders and repeats ----
MaxDeliv == 6
MaxJoins == 2

QrOf(q) == DcGetSecurejoinQr(alice, q).qr

SjGetQr(q) ==
    /\ alice' = DcGetSecurejoinQr(alice, q).dev
    /\ sj_out' = [NoOut EXCEPT !.op = "qr", !.step = q]
    /\ UNCHANGED <<bob, net, delivered, joins, sj_done, inviter_log, notSj>>

\* dc_join_securejoin with a QR code alice has shown.
SjJoin(q) ==
    /\ Len(joins) < MaxJoins
    /\ InviteNumberOf(q) \in alice.inv
    /\ \E r \in {StartProtocol(bob, QrOf(q))} :
       /\ bob' = r.dev
       /\ net' = net \cup {r.sent[i] : i \in DOMAIN r.sent}
       /\ sj_out' = Out("join", q, r)
    /\ joins' = Append(joins, q)
    /\ UNCHANGED <<alice, delivered, sj_done, inviter_log, notSj>>

\* A scan of the QR code of claire, who never answers.
StaleQr == Invite("KC", "claire", "ic", "sc", NoHdr)

SjJoinStale ==
    /\ Len(joins) < MaxJoins
    /\ \E r \in {StartProtocol(bob, StaleQr)} :
       /\ bob' = r.dev
       /\ net' = net \cup {r.sent[i] : i \in DOMAIN r.sent}
       /\ sj_out' = Out("join", "claire", r)
    /\ joins' = Append(joins, "claire")
    /\ UNCHANGED <<alice, delivered, sj_done, inviter_log, notSj>>

\* Ordinary mail from alice with her Autocrypt header reaches bob before any
\* scan: bob knows alice's key.
AliceMail == Msg("xx-unknown", "alice", "bob", "KA", NoKey, NoKey,
                 NoHdr, NoHdr, NoHdr, NoHdr)

SjMail ==
    /\ joins = <<>>
    /\ bob.peers["alice"] = NoPeer
    /\ \E r \in {ReceiveImf(bob, AliceMail)} :
       /\ bob' = r.dev
       /\ sj_out' = Out("mail", AliceMail.step, r)
    /\ UNCHANGED <<alice, net, delivered, joins, sj_done, inviter_log, notSj>>

SjDeliver(m) ==
    /\ Len(delivered) < MaxDeliv
    /\ m \in net
    /\ m.to \in {"alice", "bob"}
    /\ \E r \in {ReceiveImf(IF m.to = "alice" THEN alice ELSE bob, m)} :
       /\ alice' = IF m.to = "alice" THEN r.dev ELSE alice
       /\ bob' = IF m.to = "bob" THEN r.dev ELSE bob
       /\ net' = net \cup {r.sent[i] : i \in DOMAIN r.sent}
       /\ sj_out' = Out("recv", m.step, r)
       /\ sj_done' = sj_done \cup Redeemed(m, r)
       /\ inviter_log' = IF m.to = "alice" THEN inviter_log \o r.progress
                         ELSE inviter_log
    /\ delivered' = Append(delivered, m.step)
    /\ UNCHANGED <<joins, notSj>>


\* ===================================================================
\*        Outbound encryption decision: e2ee.rs 20-133
\* ===================================================================

\* Recipients of one message (peerstates.len()).
MaxPeers == 3

\* EncryptPreference (the values EncryptPreference::from_i32 yields).
EncryptPreferences == {"NoPreference", "Mutual", "Reset"}
\* PeerstateVerifiedStatus as passed to encrypt.
VerifiedStatuses == {"Unverified", "BidirectVerified"}

\* Option<Peerstate>.
None == <<>>
Some(p) == <<p>>
IsSome(o) == Len(o) = 1

\* The peerstates a recipient can have: its Autocrypt key is always there,
\* a verified key only after a Secure-Join.
RecipientPeerstates ==
    [prefer_encrypt : EncryptPreferences,
     public_key : {"KR"},
     verified_key : {NoKey, "KR"}]
\* One element of the list handed to should_encrypt and encrypt.  The
\* address of the tuple goes to log and error texts only.
Recipients == {None} \cup {Some(p) : p \in RecipientPeerstates}

\* Peerstate::take_key: the key of the level asked for, NoKey if there is none.
TakeKey(p, min) ==
    IF min = "BidirectVerified" THEN p.verified_key ELSE p.public_key

\* The own vote: e2ee.rs 65-69.
SelfVote(prefer) == IF prefer = "Mutual" THEN 1 ELSE 0

\* recipients_count: e2ee.rs 101.
RecipientsCountWithoutSelf(ps) == Len(ps)
RecipientsCount(ps) == Len(ps) + 1

\* The loop of should_encrypt from element i on, with the votes counted so
\* far: e2ee.rs 70-97, and the final vote: e2ee.rs 99-103.
\* The result is "true" for Ok(true), "false" for Ok(false), "err" for Err.
RECURSIVE ShouldEncryptLoop(_, _, _, _)
ShouldEncryptLoop(e2ee_guaranteed, ps, i, prefer_encrypt_count) ==
    IF i > Len(ps)
    THEN IF e2ee_guaranteed \/ 2 * prefer_encrypt_count > RecipientsCount(ps)
         THEN "true" ELSE "false"
    ELSE IF IsSome(ps[i])
         THEN LET pref == ps[i][1].prefer_encrypt IN
              IF pref = "NoPreference"
              THEN ShouldEncryptLoop(e2ee_guaranteed, ps, i + 1,
                                     prefer_encrypt_count)
              ELSE IF pref = "Mutual"
              THEN ShouldEncryptLoop(e2ee_guaranteed, ps, i + 1,
                                     prefer_encrypt_count + 1)
              ELSE IF ~e2ee_guaranteed
                   THEN "false"
                   ELSE ShouldEncryptLoop(e2ee_guaranteed, ps, i + 1,
                                          prefer_encrypt_count)
         ELSE IF e2ee_guaranteed THEN "err" ELSE "false"

\* EncryptHelper::should_encrypt: e2ee.rs 59-104.
ShouldEncrypt(self_prefer, e2ee_guaranteed, ps) ==
    ShouldEncryptLoop(e2ee_guaranteed, ps, 1, SelfVote(self_prefer))

\* EncryptHelper::encrypt: e2ee.rs 107-133.  Missing peerstates are skipped;
\* a peerstate without a key of the level asked for is an error; the own key
\* is added last.
Encrypt(min, ps) ==
    LET some == {i \in 1..Len(ps) : IsSome(ps[i])} IN
    IF \E i \in some : TakeKey(ps[i][1], min) = NoKey
    THEN [ret |-> "err", keyring |-> {}]
    ELSE [ret |-> "ok",
          keyring |-> {TakeKey(ps[i][1], min) : i \in some} \cup {"KS"}]

NoEnc == [op |-> "none", e2ee_guaranteed |-> FALSE, ret |-> "none"]

EncIdle ==
    /\ prefer_encrypt = "NoPreference"
    /\ min_verified = "Unverified"
    /\ peerstates = <<>>
    /\ enc_last = NoEnc

\* A recipient is added to the message being prepared.
EncAddRecipient(o) ==
    /\ Len(peerstates) < MaxPeers
    /\ peerstates' = Append(peerstates, o)
    /\ enc_last' = NoEnc
    /\ UNCHANGED <<prefer_encrypt, min_verified, notEnc>>

\* The recipients are listed in another order: elements i and i + 1 swap.
EncSwapRecipients(i) ==
    /\ i + 1 <= Len(peerstates)
    /\ peerstates[i] # peerstates[i + 1]
    /\ peerstates' = [peerstates EXCEPT ![i] = peerstates[i + 1],
                                        ![i + 1] = peerstates[i]]
    /\ enc_last' = NoEnc
    /\ UNCHANGED <<prefer_encrypt, min_verified, notEnc>>

\* should_encrypt is called for the message.
EncShouldEncrypt(e2ee_guaranteed) ==
    /\ enc_last' = [op |-> "should_encrypt",
                    e2ee_guaranteed |-> e2ee_guaranteed,
                    ret |-> ShouldEncrypt(prefer_encrypt, e2ee_guaranteed,
                                          peerstates)]
    /\ UNCHANGED <<prefer_encrypt, min_verified, peerstates, notEnc>>

\* encrypt is called after should_encrypt has answered Ok(true).
EncEncrypt ==
    /\ enc_last.op = "should_encrypt"
    /\ enc_last.ret = "true"
    /\ enc_last' = [op |-> "encrypt",
                    e2ee_guaranteed |-> enc_last.e2ee_guaranteed,
                    ret |-> Encrypt(min_verified, peerstates).ret]
    /\ UNCHANGED <<prefer_encrypt, min_verified, peerstates, notEnc>>

\* ===================================================================
\*                 Inbound decryption: e2ee.rs 145-268
\* ===================================================================

\* Message times and peerstate timestamps are 1..MaxTime.
MaxTime == 2
Times == 1..MaxTime
\* The subparts of a multipart message as it is sent.
MaxParts == 3
\* The relays that mangle one message on its way.
MaxMangles == 2

\* Addresses a correspondent writes from, and the keys it may announce.
FromAddrs == {"a1", "a2"}
DecKeys == {"K1", "K2"}

\* A stored peerstate (peerstate.rs): the row of address addr.
StoredPeerstates ==
    [addr : FromAddrs,
     public_key : DecKeys,
     prefer_encrypt : EncryptPreferences,
     last_seen : Times,
     last_seen_autocrypt : Times]

\* A valid Autocrypt header for the From address: Aheader::from_headers.
Aheaders == [public_key : DecKeys, prefer_encrypt : {"NoPreference", "Mutual"}]

\* What decrypt_if_autocrypt_message meets (e2ee.rs 349-433):
\*   "plain"    no PGP/MIME layout: Ok(None);
\*   "report"   a multipart/report, so no PGP/MIME layout either: Ok(None);
\*   "no_armor" a PGP/MIME layout whose payload has no PGP armor: Ok(None);
\*   "pgp"      a payload that decrypts: Ok(Some(..));
\*   "garbled"  a payload that fails to decrypt or to parse: Err.
Bodies == {"plain", "report", "no_armor", "pgp", "garbled"}

Mail(from, time, autocrypt, body, sig, chat_version) ==
    [from |-> from, time |-> time, autocrypt |-> autocrypt, body |-> body,
     sig |-> sig, chat_version |-> chat_version]

\* The signing key and the Chat-Version header are read only after a payload
\* decrypted, so the other bodies carry one value of each.
Mails ==
    {Mail(f, t, a, b, NoKey, FALSE) :
        f \in FromAddrs, t \in Times,
        a \in {None} \cup {Some(h) : h \in Aheaders},
        b \in Bodies \ {"pgp"}}
    \cup
    {Mail(f, t, a, "pgp", s, c) :
        f \in FromAddrs, t \in Times,
        a \in {None} \cup {Some(h) : h \in Aheaders},
        s \in {NoKey} \cup DecKeys, c \in BOOLEAN}

\* Peerstate::from_addr.
FromAddr(db, addr) == db[addr]

\* Peerstate::from_nongossiped_fingerprint_or_addr: a row whose public key
\* has the fingerprint if there is one, else the row of the address.  Which
\* of several rows with the fingerprint is returned is left to the database.
FromNongossipedFingerprintOrAddr(db, fp, addr) ==
    LET byfp == {a \in FromAddrs : IsSome(db[a]) /\ db[a][1].public_key = fp}
    IN  IF byfp # {} THEN {db[a] : a \in byfp} ELSE {db[addr]}

\* The peerstates try_decrypt can start from: e2ee.rs 166-193.
Lookup(db, mail) ==
    IF IsSome(mail.autocrypt)
    THEN FromNongossipedFingerprintOrAddr(db, mail.autocrypt[1].public_key,
                                          mail.from)
    ELSE {FromAddr(db, mail.from)}

\* Peerstate::apply_header.
PeerstateApplyHeader(p, header, message_time) ==
    IF message_time > p.last_seen_autocrypt
    THEN [p EXCEPT !.last_seen = message_time,
                   !.last_seen_autocrypt = message_time,
                   !.prefer_encrypt = header.prefer_encrypt,
                   !.public_key = header.public_key]
    ELSE p

\* Peerstate::from_header.
FromHeader(addr, header, message_time) ==
    [addr |-> addr,
     public_key |-> header.public_key,
     prefer_encrypt |-> header.prefer_encrypt,
     last_seen |-> message_time,
     last_seen_autocrypt |-> message_time]

\* Peerstate::degrade_encryption.
DegradeEncryption(p, message_time) == [p EXCEPT !.prefer_encrypt = "Reset"]

\* Peerstate::save_to_db(create): with create the row of p.addr is written
\* whether or not it exists, without it only an existing row is updated.
SaveToDb(db, p, create) ==
    IF create \/ IsSome(db[p.addr])
    THEN [db EXCEPT ![p.addr] = Some(p)]
    ELSE db

\* Apply Autocrypt header: e2ee.rs 166-193.  The result is the peerstate
\* try_decrypt goes on with and the database after the saves.
ApplyAutocryptHeader(db, mail, found) ==
    IF IsSome(mail.autocrypt)
    THEN IF IsSome(found)
         THEN IF found[1].addr = mail.from
              THEN LET p == PeerstateApplyHeader(found[1], mail.autocrypt[1],
                                                 mail.time)
                   IN  [peerstate |-> Some(p), db |-> SaveToDb(db, p, FALSE)]
              ELSE [peerstate |-> found, db |-> db]
         ELSE LET p == FromHeader(mail.from, mail.autocrypt[1], mail.time)
              IN  [peerstate |-> Some(p), db |-> SaveToDb(db, p, TRUE)]
    ELSE [peerstate |-> found, db |-> db]

\* public_keyring_for_validate: e2ee.rs 196-204.
KeyringForValidate(peerstate) ==
    IF IsSome(peerstate) THEN {peerstate[1].public_key} ELSE {}

\* Mutant: a payload that fails to decrypt is passed on as cleartext.
DecryptErrorsAsCleartext(mail, keyring) ==
    IF mail.body = "pgp"
    THEN [ret |-> "Ok", out_mail |-> TRUE,
          signatures |-> {mail.sig} \cap keyring]
    ELSE [ret |-> "Ok", out_mail |-> FALSE, signatures |-> {}]

\* decrypt_if_autocrypt_message: e2ee.rs 207-211, 349-433.
DecryptIfAutocryptMessage(mail, keyring) ==
    IF mail.body = "garbled"
    THEN [ret |-> "Err", out_mail |-> FALSE, signatures |-> {}]
    ELSE IF mail.body = "pgp"
    THEN [ret |-> "Ok", out_mail |-> TRUE,
          signatures |-> {mail.sig} \cap keyring]
    ELSE [ret |-> "Ok", out_mail |-> FALSE, signatures |-> {}]

\* contains_report: e2ee.rs 449-451.
ContainsReport(mail) == mail.body = "report"

\* Mutant: the address change is accepted without a valid signature.
IsAddressChangeUnsigned(p, mail, signatures) ==
    /\ p.addr # mail.from
    /\ mail.chat_version
    /\ mail.time > p.last_seen

\* The address change is accepted: e2ee.rs 217-227.
IsAddressChange(p, mail, signatures) ==
    /\ p.addr # mail.from
    /\ signatures # {}
    /\ mail.chat_version
    /\ mail.time > p.last_seen

\* The encryption preference is degraded: e2ee.rs 254-257.
ShouldDegradeAnyTime(p, mail, out_mail) ==
    ~out_mail /\ ~ContainsReport(mail)
ShouldDegrade(p, mail, out_mail) ==
    /\ ~out_mail
    /\ mail.time > p.last_seen_autocrypt
    /\ ~ContainsReport(mail)

\* try_decrypt from the peerstate `found` of the lookup: e2ee.rs 145-268.
\* The result holds the database after the call, what is returned, and what
\* the call did to the peerstate it worked on.
TryDecrypt(db, mail, found) ==
    LET a == ApplyAutocryptHeader(db, mail, found)
        d == DecryptIfAutocryptMessage(mail, KeyringForValidate(a.peerstate))
        none == [db |-> a.db, ret |-> d.ret, out_mail |-> d.out_mail,
                 signatures |-> d.signatures, peer |-> "none",
                 aeap |-> FALSE, degraded |-> FALSE]
    IN
    IF d.ret = "Err" \/ ~IsSome(a.peerstate)
    THEN none
    ELSE
    LET p0 == a.peerstate[1]
        aeap == IsAddressChange(p0, mail, d.signatures)
        \* e2ee.rs 228-247
        p1 == IF aeap
              THEN PeerstateApplyHeader([p0 EXCEPT !.addr = mail.from],
                                        mail.autocrypt[1], mail.time)
              ELSE p0
        db1 == IF aeap
               THEN SaveToDb(SaveToDb(a.db, p1, TRUE), p1, FALSE)
               ELSE a.db
        \* e2ee.rs 254-261
        degrade == ShouldDegrade(p1, mail, d.out_mail)
        p2 == IF degrade THEN DegradeEncryption(p1, mail.time) ELSE p1
        db2 == IF degrade THEN SaveToDb(db1, p2, FALSE) ELSE db1
    IN  [db |-> db2, ret |-> "Ok", out_mail |-> d.out_mail,
         signatures |-> d.signatures, peer |-> p2.addr,
         aeap |-> aeap, degraded |-> degrade]

NoDec == [op |-> "none", from |-> "none", time |-> 0, header |-> FALSE]

\* ---- the MIME layouts of an encrypted message: e2ee.rs 273-433 ----
\* A ParsedMail is its content type, its subparts and, for a part that can
\* be a payload, what its body is: armored data that decrypts ("pgp"), data
\* that is not an armored message ("no_armor"), or armored data that fails
\* to decrypt or to parse ("garbled").
Leaf(mimetype, body) ==
    [mimetype |-> mimetype, subparts |-> <<>>, body |-> body]
Multipart(mimetype, subparts) ==
    [mimetype |-> mimetype, subparts |-> subparts, body |-> ""]

TextPlain == Leaf("text/plain", "")
PgpEncrypted == Leaf("application/pgp-encrypted", "")
Payloads == {Leaf("application/octet-stream", b) :
                 b \in {"pgp", "no_armor", "garbled"}}
MimeLeaves == {TextPlain, PgpEncrypted} \cup Payloads

\* The mails that arrive: a single part, or a multipart of up to MaxParts
\* single parts.
MimeMails ==
    MimeLeaves \cup
    {Multipart(t, parts) :
         t \in {"multipart/encrypted", "multipart/mixed"},
         parts \in UNION {[1..n -> MimeLeaves] : n \in 0..MaxParts}}

\* get_autocrypt_mime: e2ee.rs 273-289.
GetAutocryptMime(mail) ==
    IF mail.mimetype # "multipart/encrypted"
    THEN None
    ELSE IF /\ Len(mail.subparts) = 2
            /\ mail.subparts[1].mimetype = "application/pgp-encrypted"
            /\ mail.subparts[2].mimetype = "application/octet-stream"
    THEN Some(mail.subparts[2])
    ELSE None

\* Mutant: the part after the leading text is taken as the payload.
GetMixedUpMimeSecond(mail) ==
    IF mail.mimetype # "multipart/mixed"
    THEN None
    ELSE IF /\ Len(mail.subparts) = 3
            /\ mail.subparts[1].mimetype = "text/plain"
            /\ mail.subparts[2].mimetype = "application/pgp-encrypted"
            /\ mail.subparts[3].mimetype = "application/octet-stream"
    THEN Some(mail.subparts[2])
    ELSE None

\* get_mixed_up_mime: e2ee.rs 307-324.
GetMixedUpMime(mail) ==
    IF mail.mimetype # "multipart/mixed"
    THEN None
    ELSE IF /\ Len(mail.subparts) = 3
            /\ mail.subparts[1].mimetype = "text/plain"
            /\ mail.subparts[2].mimetype = "application/pgp-encrypted"
            /\ mail.subparts[3].mimetype = "application/octet-stream"
    THEN Some(mail.subparts[3])
    ELSE None

\* get_attachment_mime: e2ee.rs 331-347.
GetAttachmentMime(mail) ==
    IF mail.mimetype # "multipart/mixed"
    THEN None
    ELSE IF /\ Len(mail.subparts) = 2
            /\ mail.subparts[1].mimetype = "text/plain"
            /\ mail.subparts[2].mimetype = "multipart/encrypted"
    THEN GetAutocryptMime(mail.subparts[2])
    ELSE None

\* Option::or_else.
OrElse(o, p) == IF IsSome(o) THEN o ELSE p

\* The probe of decrypt_if_autocrypt_message: e2ee.rs 355-362.
EncryptedPart(mail) ==
    OrElse(GetAutocryptMime(mail),
           OrElse(GetMixedUpMime(mail), GetAttachmentMime(mail)))

\* The layout the probe found the payload in.
LayoutOf(mail) ==
    IF IsSome(GetAutocryptMime(mail)) THEN "standard"
    ELSE IF IsSome(GetMixedUpMime(mail)) THEN "mixed_up"
    ELSE IF IsSome(GetAttachmentMime(mail)) THEN "attachment"
    ELSE "none"

\* decrypt_part: e2ee.rs 403-433.
DecryptPart(part) ==
    IF part.body = "garbled" THEN [ret |-> "Err", out_mail |-> FALSE]
    ELSE IF part.body = "pgp" THEN [ret |-> "Ok", out_mail |-> TRUE]
    ELSE [ret |-> "Ok", out_mail |-> FALSE]

\* decrypt_if_autocrypt_message on the MIME tree: e2ee.rs 349-375.
DecryptMime(mail) ==
    IF IsSome(EncryptedPart(mail))
    THEN DecryptPart(EncryptedPart(mail)[1])
    ELSE [ret |-> "Ok", out_mail |-> FALSE]

\* What Microsoft Exchange and the ProtonMail bridge do to a message
\* (e2ee.rs 291-306): the type becomes multipart/mixed and a part is
\* prepended.
MixUp(mail) ==
    Multipart("multipart/mixed", <<TextPlain>> \o mail.subparts)

\* What Google Workspace does to a message (e2ee.rs 326-330): the message
\* becomes the attachment of an empty plaintext message.
Attach(mail) == Multipart("multipart/mixed", <<TextPlain, mail>>)

NoMimeOut == [layout |-> "idle", part |-> None, ret |-> "none",
              out_mail |-> FALSE]

MimeIdle ==
    /\ mime_mail = TextPlain
    /\ mime_env = TextPlain
    /\ mime_path = <<>>
    /\ mime_out = NoMimeOut

\* A relay mangles the message on its way.
MimeMixUp ==
    /\ Len(mime_path) < MaxMangles
    /\ mime_mail.mimetype = "multipart/encrypted"
    /\ mime_mail' = MixUp(mime_mail)
    /\ mime_path' = Append(mime_path, "mixed_up")
    /\ mime_out' = NoMimeOut
    /\ UNCHANGED <<mime_env, peerstate_db, dec_last, notDec>>

MimeAttach ==
    /\ Len(mime_path) < MaxMangles
    /\ mime_mail' = Attach(mime_mail)
    /\ mime_path' = Append(mime_path, "attachment")
    /\ mime_out' = NoMimeOut
    /\ UNCHANGED <<mime_env, peerstate_db, dec_last, notDec>>

\* The message arrives and decrypt_if_autocrypt_message runs on it.
MimeDecrypt ==
    /\ mime_out = NoMimeOut
    /\ \E d \in {DecryptMime(mime_mail)} :
           mime_out' = [layout |-> LayoutOf(mime_mail),
                        part |-> EncryptedPart(mime_mail),
                        ret |-> d.ret, out_mail |-> d.out_mail]
    /\ UNCHANGED <<mime_mail, mime_env, mime_path, peerstate_db, dec_last,
                   notDec>>

DecIdle ==
    /\ peerstate_db = [a \in FromAddrs |-> None]
    /\ dec_last = NoDec
    /\ MimeIdle

\* What the last call did, for the history variable.
DecOp(r) ==
    IF r.ret = "Err" THEN "err"
    ELSE IF r.aeap THEN "aeap"
    ELSE IF r.degraded THEN "degraded"
    ELSE IF r.out_mail THEN "decrypted"
    ELSE "cleartext"

\* A message is received and handed to try_decrypt.
DecReceive(mail) ==
    \E found \in Lookup(peerstate_db, mail) :
    \E r \in {TryDecrypt(peerstate_db, mail, found)} :
        /\ peerstate_db' = r.db
        /\ dec_last' = [op |-> DecOp(r), from |-> mail.from,
                        time |-> mail.time, header |-> IsSome(mail.autocrypt)]
        /\ UNCHANGED <<mime_mail, mime_env, mime_path, mime_out, notDec>>

\* ===================================================================
\*        IEEE 754 binary64 arithmetic, as f64 in ratelimit.rs
\* ===================================================================

\* Natural numbers of any size: limbs to base 2^15, least significant
\* first, no leading zero limb; <<>> is zero.  Every intermediate value of
\* the limb arithmetic stays below 2^31.
LimbBase == 32768
LimbBits == 15

BigOne == <<1>>

\* F of the value of v: a `let` of the program, whose value is computed
\* before it is used.
LetIn(v, F(_)) == CHOOSE r \in {F(w) : w \in {v}} : TRUE

MaxOf(a, b) == IF a < b THEN b ELSE a

\* The limbs of a without its leading zero limbs.
BigTop(a) ==
    IF \A i \in 1..Len(a) : a[i] = 0 THEN 0
    ELSE CHOOSE i \in 1..Len(a) :
             a[i] # 0 /\ \A j \in (i + 1)..Len(a) : a[j] = 0
BigNorm(a) == SubSeq(a, 1, BigTop(a))

\* n is below 2^31.
BigOfInt(n) ==
    BigNorm(<<n % LimbBase, (n \div LimbBase) % LimbBase,
              n \div (LimbBase * LimbBase)>>)

RECURSIVE BigToIntFrom(_, _)
BigToIntFrom(a, i) ==
    IF i > Len(a) THEN 0 ELSE a[i] + LimbBase * BigToIntFrom(a, i + 1)
\* a is below 2^31.
BigToInt(a) == BigToIntFrom(a, 1)

BigLimb(a, i) == IF 1 <= i /\ i <= Len(a) THEN a[i] ELSE 0

\* The number whose limb k is cols[k], each cols[k] below 2^30.  Limb k
\* first takes the high part of column k - 1, which leaves it below 2^16;
\* a carry of one then leaves position k when some position j <= k is at
\* least 2^15 and every position between them is 2^15 - 1.
BigCol(cols, k) ==
    (BigLimb(cols, k) % LimbBase) + (BigLimb(cols, k - 1) \div LimbBase)
BigCarryOut(cols, k) ==
    \E j \in 1..k :
        /\ BigCol(cols, j) >= LimbBase
        /\ \A l \in (j + 1)..k : BigCol(cols, l) = LimbBase - 1
BigCarry(cols) ==
    BigNorm(SubSeq([k \in 1..(Len(cols) + 1) |->
                       (BigCol(cols, k)
                          + (IF BigCarryOut(cols, k - 1) THEN 1 ELSE 0))
                       % LimbBase],
                   1, Len(cols) + 1))

BigAdd(a, b) ==
    BigCarry([i \in 1..MaxOf(Len(a), Len(b)) |-> BigLimb(a, i) + BigLimb(b, i)])

\* A borrow of one leaves position k of a - b when some position j <= k
\* has a below b and every position between them has them equal.
BigBorrowOut(a, b, k) ==
    \E j \in 1..k :
        /\ BigLimb(a, j) < BigLimb(b, j)
        /\ \A l \in (j + 1)..k : BigLimb(a, l) = BigLimb(b, l)
\* a - b for a >= b.
BigSub(a, b) ==
    BigNorm(SubSeq([i \in 1..Len(a) |->
                       (a[i] - BigLimb(b, i)
                          - (IF BigBorrowOut(a, b, i - 1) THEN 1 ELSE 0)
                          + LimbBase) % LimbBase],
                   1, Len(a)))

\* -1, 0 or 1 as a is below, equal to or above b.
BigCmp(a, b) ==
    IF Len(a) < Len(b) THEN -1
    ELSE IF Len(a) > Len(b) THEN 1
    ELSE IF a = b THEN 0
    ELSE IF BigBorrowOut(a, b, Len(a)) THEN -1 ELSE 1

\* a * k for k up to 2^15.
BigMulSmall(a, k) == BigCarry([i \in 1..Len(a) |-> a[i] * k])

BigShiftLimbs(a, n) ==
    IF a = <<>> THEN a ELSE [i \in 1..n |-> 0] \o a

\* a * 2^n.
BigShl(a, n) ==
    BigShiftLimbs(BigMulSmall(a, 2 ^ (n % LimbBits)), n \div LimbBits)

\* floor(a / (2^15)^k / p) for p a power of two up to 2^14.
BigShrBy(a, k, p) ==
    IF k >= Len(a) THEN <<>>
    ELSE BigNorm(SubSeq([i \in 1..(Len(a) - k) |->
                            (a[i + k] \div p)
                              + (BigLimb(a, i + k + 1) % p) * (LimbBase \div p)],
                        1, Len(a) - k))
\* floor(a / 2^n).
BigShr(a, n) == BigShrBy(a, n \div LimbBits, 2 ^ (n % LimbBits))

\* Column k of a * b: the low parts of the limb products of weight k and
\* the high parts of those of weight k - 1, over the limbs 1..j of b.
BigMulTerm(a, b, k, j) ==
    ((BigLimb(a, k - j + 1) * b[j]) % LimbBase)
        + ((BigLimb(a, k - j) * b[j]) \div LimbBase)
RECURSIVE BigMulCol(_, _, _, _)
BigMulCol(a, b, k, j) ==
    IF j = 0 THEN 0 ELSE BigMulTerm(a, b, k, j) + BigMulCol(a, b, k, j - 1)
BigMul(a, b) ==
    BigCarry([k \in 1..(Len(a) + Len(b)) |-> BigMulCol(a, b, k, Len(b))])

\* Bits of a limb, and of a number.
LimbBitLen(x) == CHOOSE k \in 0..LimbBits : x < 2 ^ k /\ (k = 0 \/ x >= 2 ^ (k - 1))
BigBitLen(a) ==
    IF a = <<>> THEN 0
    ELSE LimbBits * (Len(a) - 1) + LimbBitLen(a[Len(a)])

\* The largest digit g below 2^15 with g * b <= cur, for cur below
\* b * 2^15 and the highest limb of b at least 2^14: the quotient est of
\* the two highest limbs of cur by the highest limb of b is g, g + 1 or
\* g + 2.
BigDigitNear(cur, b, est) ==
    CHOOSE g \in 0..(LimbBase - 1) \cap (est - 2)..est :
        /\ BigCmp(BigMulSmall(b, g), cur) <= 0
        /\ BigCmp(cur, BigMulSmall(b, g + 1)) < 0
BigQuotDigit(cur, b) ==
    BigDigitNear(cur, b,
        (BigLimb(cur, Len(b) + 1) * LimbBase + BigLimb(cur, Len(b)))
            \div b[Len(b)])

\* One step of the long division: the next lower limb is appended to the
\* remainder st.r of the limbs above it, which gives cur and one more
\* quotient digit g.
BigDivStep(st, limb, b) ==
    LetIn(BigNorm(<<limb>> \o st.r),
          LAMBDA cur :
              LetIn(BigQuotDigit(cur, b),
                    LAMBDA g :
                        [q |-> <<g>> \o st.q,
                         r |-> BigSub(cur, BigMulSmall(b, g))]))

\* Long division of the limbs i, i - 1, .. 1 of a by b, the limbs above
\* having given the quotient limbs st.q and the remainder st.r.
RECURSIVE BigDivAt(_, _, _, _)
BigDivAt(a, b, i, st) ==
    IF i = 0 THEN st
    ELSE LetIn(BigDivStep(st, a[i], b),
               LAMBDA next : BigDivAt(a, b, i - 1, next))

\* Quotient and remainder of a by b # 0: both are scaled by 2^s for the
\* highest limb of b to be at least 2^14, and the limbs of a above the
\* length of b are below b.
BigDivLimbs(a, b) ==
    IF Len(a) < Len(b) THEN [q |-> <<>>, r |-> a]
    ELSE BigDivAt(a, b, Len(a) - Len(b) + 1,
                  [q |-> <<>>, r |-> SubSeq(a, Len(a) - Len(b) + 2, Len(a))])
BigUnscale(qr, s) == [q |-> BigNorm(qr.q), r |-> BigShr(qr.r, s)]
BigDivScaled(a, b, s) == BigUnscale(BigDivLimbs(BigShl(a, s), BigShl(b, s)), s)
BigDivMod(a, b) == BigDivScaled(a, b, LimbBits - LimbBitLen(b[Len(b)]))

\* floor(a / 2^n) rounded to nearest, ties to even, when the part cut off
\* asks for it; `more` says that a itself was cut off below.  fl is the
\* floor and c compares the part cut off with one half.
BigRoundBy(fl, c, more) ==
    IF c > 0 \/ (c = 0 /\ (more \/ BigLimb(fl, 1) % 2 = 1))
    THEN BigAdd(fl, BigOne) ELSE fl
BigNearestOf(a, n, more, fl) ==
    BigRoundBy(fl, BigCmp(BigSub(a, BigShl(fl, n)), BigShl(BigOne, n - 1)),
               more)
BigShrNearest(a, n, more) ==
    IF n = 0 THEN a ELSE BigNearestOf(a, n, more, BigShr(a, n))

\* A finite f64 that is not negative: m * 2^e with 2^52 <= m < 2^53, or zero.
MantissaBits == 53
F64Zero == [m |-> <<>>, e |-> 0]

\* The f64 nearest to (n / d) * 2^e, ties to even: the rounding of every
\* f64 operation.  n is scaled by 2^s for the quotient to have more than
\* 53 bits, and the quotient of len bits is cut to 53 bits.
F64Scale(n, d) ==
    IF d = BigOne \/ BigBitLen(n) >= BigBitLen(d) + MantissaBits + 2
    THEN 0
    ELSE BigBitLen(d) + MantissaBits + 2 - BigBitLen(n)
F64Carry(m1, e) ==
    IF BigBitLen(m1) > MantissaBits
    THEN [m |-> BigShr(m1, 1), e |-> e + 1]
    ELSE [m |-> m1, e |-> e]
F64RoundBits(q, more, e, len) ==
    IF len <= MantissaBits
    THEN [m |-> BigShl(q, MantissaBits - len), e |-> e - (MantissaBits - len)]
    ELSE F64Carry(BigShrNearest(q, len - MantissaBits, more),
                  e + (len - MantissaBits))
F64RoundQuot(dm, e) == F64RoundBits(dm.q, dm.r # <<>>, e, BigBitLen(dm.q))
F64RoundScaled(n, d, e, s) ==
    F64RoundQuot(IF d = BigOne THEN [q |-> n, r |-> <<>>]
                 ELSE BigDivMod(BigShl(n, s), d),
                 e - s)
F64Round(n, d, e) ==
    IF n = <<>> THEN F64Zero ELSE F64RoundScaled(n, d, e, F64Scale(n, d))

\* n as f64, for n below 2^31: the cast `n as f64`.
F64OfInt(n) == F64Round(BigOfInt(n), BigOne, 0)

MinOf(a, b) == IF a < b THEN a ELSE b
\* The mantissa of x at exponent e <= x.e.
F64At(x, e) == BigShl(x.m, x.e - e)

\* -1, 0 or 1 as a is below, equal to or above b.
F64Cmp(a, b) ==
    IF a.m = <<>> THEN (IF b.m = <<>> THEN 0 ELSE -1)
    ELSE IF b.m = <<>> THEN 1
    ELSE LET e == MinOf(a.e, b.e) IN BigCmp(F64At(a, e), F64At(b, e))
F64Le(a, b) == F64Cmp(a, b) <= 0

\* a + b.
F64Add(a, b) ==
    IF a.m = <<>> THEN b
    ELSE IF b.m = <<>> THEN a
    ELSE LET e == MinOf(a.e, b.e)
         IN  F64Round(BigAdd(F64At(a, e), F64At(b, e)), BigOne, e)

\* (a - b).max(0.0): zero when the difference is negative.
F64SubMax0(a, b) ==
    IF F64Le(a, b) THEN F64Zero
    ELSE IF b.m = <<>> THEN a
    ELSE LET e == MinOf(a.e, b.e)
         IN  F64Round(BigSub(F64At(a, e), F64At(b, e)), BigOne, e)

\* a * b.
F64Mul(a, b) == F64Round(BigMul(a.m, b.m), BigOne, a.e + b.e)

\* a / b for b # 0.
F64Div(a, b) == F64Round(a.m, b.m, a.e - b.e)

\* ===================================================================
\*                  Rate limiter: ratelimit.rs 9-88
\* ===================================================================

\* Calls of send in one behaviour.
MaxSends == 5
\* Times the system clock moves on between two calls in one behaviour.
MaxTicks == 1
\* Calls of send in one behaviour of a burst followed by quiet time.
MaxBurst == 7

\* Duration and SystemTime: whole seconds and nanoseconds below 10^9.
NanosPerSec == 1000000000
Dur(secs, nanos) == [secs |-> secs, nanos |-> nanos]
DurZero == Dur(0, 0)

DurLe(t, u) == t.secs < u.secs \/ (t.secs = u.secs /\ t.nanos <= u.nanos)
DurAdd(t, u) ==
    IF t.nanos + u.nanos >= NanosPerSec
    THEN Dur(t.secs + u.secs + 1, t.nanos + u.nanos - NanosPerSec)
    ELSE Dur(t.secs + u.secs, t.nanos + u.nanos)
\* t - u for u <= t.
DurSub(t, u) ==
    IF t.nanos < u.nanos
    THEN Dur(t.secs - u.secs - 1, t.nanos + NanosPerSec - u.nanos)
    ELSE Dur(t.secs - u.secs, t.nanos - u.nanos)

\* now.duration_since(last_update).unwrap_or(Duration::ZERO):
\* ratelimit.rs 45-47.
DurationSinceOrZero(t, earlier) ==
    IF DurLe(earlier, t) THEN DurSub(t, earlier) ELSE DurZero

\* Duration::as_secs_f64: (secs as f64) + (nanos as f64) / (NANOS_PER_SEC as f64).
F64NanosPerSec == F64OfInt(NanosPerSec)
AsSecsF64(t) ==
    F64Add(F64OfInt(t.secs), F64Div(F64OfInt(t.nanos), F64NanosPerSec))

\* Duration::from_secs_f64 as the standard library implemented it over time:
\*   "cast"     the f64 product secs * 1e9 cast to an integer,
\*   "truncate" the exact value cut to whole nanoseconds,
\*   "nearest"  the exact value rounded to the nearest nanosecond.
FromSecsF64Versions == {"cast", "truncate", "nearest"}

BigNanosPerSec == BigOfInt(NanosPerSec)
\* floor(m * 2^e).
BigFloor(m, e) == IF e >= 0 THEN BigShl(m, e) ELSE BigShr(m, 0 - e)
F64Floor(x) == BigFloor(x.m, x.e)
\* exact * 2^e in whole nanoseconds.
BigNanos(exact, e, version) ==
    IF e >= 0 \/ version = "truncate" THEN BigFloor(exact, e)
    ELSE BigShrNearest(exact, 0 - e, FALSE)
\* The nanoseconds of x >= 0.
F64Nanos(x, version) ==
    IF version = "cast"
    THEN F64Floor(F64Mul(x, F64NanosPerSec))
    ELSE BigNanos(BigMul(x.m, BigNanosPerSec), x.e, version)
DurOfNanos(qr) == Dur(BigToInt(qr.q), BigToInt(qr.r))
DurationFromSecsF64(x, version) ==
    DurOfNanos(BigDivMod(F64Nanos(x, version), BigNanosPerSec))

\* Ratelimit::new(Duration::new(60, 0), 3.0): context.rs 191.
Window == Dur(60, 0)
Quota == F64OfInt(3)
F64One == F64OfInt(1)

\* rate: ratelimit.rs 44.
Rate == F64Div(Quota, AsSecsF64(Window))

\* Ratelimit::new_at: ratelimit.rs 33-40.
NewAt(t) == [last_update |-> t, current_value |-> F64Zero]

\* Ratelimit::update_at: ratelimit.rs 43-52.
UpdateAtStampedFirst(rl, t) ==
    LetIn(AsSecsF64(DurationSinceOrZero(t, t)),
          LAMBDA elapsed :
              [last_update |-> t,
               current_value |->
                   F64SubMax0(rl.current_value, F64Mul(Rate, elapsed))])
UpdateAt(rl, t) ==
    LetIn(AsSecsF64(DurationSinceOrZero(t, rl.last_update)),
          LAMBDA elapsed :
              [last_update |-> t,
               current_value |->
                   F64SubMax0(rl.current_value, F64Mul(Rate, elapsed))])

\* Ratelimit::can_send_at: ratelimit.rs 55-58; CanSend is the comparison
\* of the updated bucket u, ratelimit.rs 57.
CanSend(u) == [rl |-> u, ret |-> F64Le(u.current_value, Quota)]
CanSendStrictlyBelow(rl, t) ==
    LET u == UpdateAt(rl, t)
    IN  [rl |-> u, ret |-> ~F64Le(Quota, u.current_value)]
CanSendAt(rl, t) == CanSend(UpdateAt(rl, t))

\* Ratelimit::send_at: ratelimit.rs 65-68; Send is the addition to the
\* updated bucket u, ratelimit.rs 67.
Send(u) == [u EXCEPT !.current_value = F64Add(@, F64One)]
SendAtUpToQuota(rl, t) ==
    LET u == UpdateAt(rl, t)
    IN  IF F64Le(u.current_value, Quota)
        THEN [u EXCEPT !.current_value = F64Add(@, F64One)]
        ELSE u
SendAt(rl, t) == Send(UpdateAt(rl, t))

\* Ratelimit::until_can_send_at: ratelimit.rs 79-88; UntilCanSend is the
\* computation from the updated bucket u, ratelimit.rs 81-87.
UntilCanSend(u, version) ==
    [rl |-> u,
     ret |-> IF F64Le(u.current_value, Quota)
             THEN DurZero
             ELSE LetIn(F64SubMax0(u.current_value, Quota),
                        LAMBDA requirement :
                            LetIn(F64Div(requirement, Rate),
                                  LAMBDA secs :
                                      DurationFromSecsF64(secs, version)))]
UntilCanSendAt(rl, t, version) == UntilCanSend(UpdateAt(rl, t), version)

\* The bucket as a value.
Bucket == [last_update |-> last_update, current_value |-> current_value]

NoRl == [op |-> "none", ok |-> TRUE, wait |-> DurZero,
         before |-> NewAt(DurZero), at |-> DurZero]

\* No call is remembered.
NoMark == [set |-> FALSE, at |-> DurZero, value |-> F64Zero]

\* No send yet: the bucket was made at time zero.
NoSent == [at |-> DurZero, allowed |-> TRUE]

RlIdle ==
    /\ last_update = DurZero
    /\ current_value = F64Zero
    /\ clock = DurZero
    /\ from_secs_f64 = "truncate"
    /\ rl_sends = 0
    /\ rl_ticks = 0
    /\ rl_last = NoRl
    /\ rl_sent = NoSent
    /\ rl_mark = NoMark

\* Time passes between two calls.
Waits == {Dur(2, 0), Dur(16, 740000000)}
\* Quiet times after a burst: up to the window of context.rs 191.
QuietWaits == {Dur(19, 999999999), Dur(20, 0), Dur(59, 999999999), Window}
RlTick(d) ==
    /\ rl_ticks < MaxTicks
    /\ clock' = DurAdd(clock, d)
    /\ rl_ticks' = rl_ticks + 1
    /\ UNCHANGED <<last_update, current_value, from_secs_f64, rl_sends,
                   rl_last, rl_sent, rl_mark, notRl>>

\* The caller sleeps for the time the last until_can_send returned.
RlSleep ==
    /\ rl_last.op = "until_can_send"
    /\ rl_last.wait # DurZero
    /\ clock' = DurAdd(clock, rl_last.wait)
    /\ rl_last' = [rl_last EXCEPT !.op = "sleep"]
    /\ UNCHANGED <<last_update, current_value, from_secs_f64, rl_sends,
                   rl_ticks, rl_sent, rl_mark, notRl>>

\* Ratelimit::can_send: ratelimit.rs 60-63.
RlCanSend ==
    \E r \in {CanSendAt(Bucket, clock)} :
        /\ last_update' = r.rl.last_update
        /\ current_value' = r.rl.current_value
        /\ rl_last' = [op |-> "can_send", ok |-> r.ret, wait |-> DurZero,
                       before |-> Bucket, at |-> clock]
        /\ UNCHANGED <<clock, from_secs_f64, rl_sends, rl_ticks, rl_sent,
                       rl_mark, notRl>>

\* Ratelimit::send: ratelimit.rs 75-77, called at most max times.
RlSendWithin(max) ==
    /\ rl_sends < max
    /\ \E r \in {SendAt(Bucket, clock)} :
        /\ last_update' = r.last_update
        /\ current_value' = r.current_value
        /\ rl_last' = [op |-> "send", ok |-> TRUE, wait |-> DurZero,
                       before |-> Bucket, at |-> clock]
    /\ rl_sent' = [at |-> clock, allowed |-> CanSendAt(Bucket, clock).ret]
    /\ rl_sends' = rl_sends + 1
    /\ UNCHANGED <<clock, from_secs_f64, rl_ticks, rl_mark, notRl>>
RlSend == RlSendWithin(MaxSends)

\* Ratelimit::until_can_send: ratelimit.rs 90-93.
RlUntilCanSend ==
    \E r \in {UntilCanSendAt(Bucket, clock, from_secs_f64)} :
        /\ last_update' = r.rl.last_update
        /\ current_value' = r.rl.current_value
        /\ rl_last' = [op |-> "until_can_send", ok |-> TRUE, wait |-> r.ret,
                       before |-> Bucket, at |-> clock]
        /\ UNCHANGED <<clock, from_secs_f64, rl_sends, rl_ticks, rl_sent,
                       rl_mark, notRl>>

\* ---- a system clock that is set back while the bucket is in use ----
\* Steps of the time and calls under a clock set back, in one behaviour.
MaxJumps == 3
\* The times of the calls, and what SystemTime::now() can answer.
Readings == {DurZero, Dur(2, 0), Dur(4, 0)}

\* Time passes up to t.
ClockPass(t) ==
    /\ rl_ticks < MaxJumps
    /\ t # clock
    /\ DurLe(clock, t)
    /\ clock' = t
    /\ rl_ticks' = rl_ticks + 1
    /\ UNCHANGED <<last_update, current_value, from_secs_f64, rl_sends,
                   rl_last, rl_sent, rl_mark, notRl>>

\* Ratelimit::can_send while the system clock is set back: SystemTime::now()
\* answers t, earlier than the time it is (ratelimit.rs 60-63).
StaleCanSend(t) ==
    /\ rl_ticks < MaxJumps
    /\ t # clock
    /\ DurLe(t, clock)
    /\ \E r \in {CanSendAt(Bucket, t)} :
        /\ last_update' = r.rl.last_update
        /\ current_value' = r.rl.current_value
        /\ rl_last' = [op |-> "can_send", ok |-> r.ret, wait |-> DurZero,
                       before |-> Bucket, at |-> t]
    /\ rl_ticks' = rl_ticks + 1
    /\ UNCHANGED <<clock, from_secs_f64, rl_sends, rl_sent, rl_mark, notRl>>

\* Ratelimit::can_send: ratelimit.rs 60-63; the call is remembered.
ClockCanSend ==
    \E r \in {CanSendAt(Bucket, clock)} :
        /\ last_update' = r.rl.last_update
        /\ current_value' = r.rl.current_value
        /\ rl_last' = [op |-> "can_send", ok |-> r.ret, wait |-> DurZero,
                       before |-> Bucket, at |-> clock]
        /\ rl_mark' = [set |-> TRUE, at |-> clock,
                       value |-> r.rl.current_value]
        /\ UNCHANGED <<clock, from_secs_f64, rl_sends, rl_ticks, rl_sent,
                       notRl>>

\* Ratelimit::send: ratelimit.rs 75-77; what was remembered is of no use
\* after it.
ClockSend ==
    /\ rl_sends < MaxSends
    /\ \E r \in {SendAt(Bucket, clock)} :
        /\ last_update' = r.last_update
        /\ current_value' = r.current_value
        /\ rl_last' = [op |-> "send", ok |-> TRUE, wait |-> DurZero,
                       before |-> Bucket, at |-> clock]
    /\ rl_sent' = [at |-> clock, allowed |-> CanSendAt(Bucket, clock).ret]
    /\ rl_sends' = rl_sends + 1
    /\ rl_mark' = NoMark
    /\ UNCHANGED <<clock, from_secs_f64, rl_ticks, notRl>>


\* ===================================================================
\*                  Location streaming: location.rs
\* ===================================================================

\* Calls of the location API in one behaviour.
MaxLocCalls == 3
\* Times the clock moves on in one behaviour.
MaxLocTicks == 2

\* The chats of the account: ids above the special chat ids.
LocChats == {10, 11}
\* ContactId::SELF and a contact.
ContactSelf == 1
ContactPeer == 10
\* time() when the account starts: the timestamp of location.rs 769.
LocEpoch == 1598490000
\* The wait of location_loop when nothing is due: location.rs 603.
DaySecs == 86400

\* The streaming window of a chat: chats.locations_send_begin,
\* locations_send_until and locations_last_sent.
NoWindow == [begin |-> 0, until |-> 0, last_sent |-> 0]

\* A row of the locations table; its id is its position in the table.
LocRow(lat, lon, acc, ts, chat, from, independent) ==
    [latitude |-> lat, longitude |-> lon, accuracy |-> acc, timestamp |-> ts,
     chat_id |-> chat, from_id |-> from, independent |-> independent]

\* is_sending_locations_to_chat(Some(chat_id)): location.rs 243-251.
IsSendingLocationsEver(chats, c, now) == chats[c].until > 0
IsSendingLocationsToChat(chats, c, now) == chats[c].until > now

\* The rows get_kml would put into the KML of chat c: location.rs 422-445
\* (the query does not look at the chat of a row).
KmlRows(chats, locs, c, now) ==
    IF chats[c].begin # 0 /\ now <= chats[c].until
    THEN {i \in 1..Len(locs) :
            /\ locs[i].from_id = ContactSelf
            /\ locs[i].timestamp >= chats[c].begin
            /\ \/ locs[i].timestamp >= chats[c].last_sent
               \/ \A j \in 1..Len(locs) :
                     locs[j].from_id = ContactSelf
                         => locs[j].timestamp <= locs[i].timestamp
            /\ locs[i].independent = 0}
    ELSE {}

\* set_kml_sent_timestamp: location.rs 502-515.
SetKmlSentTimestamp(chats, c, timestamp) ==
    [chats EXCEPT ![c] = [@ EXCEPT !.last_sent = timestamp]]

\* chat::send_msg: the message goes into the chat; the pending locations
\* of the chat go with it as location.kml, and then the chat's
\* locations_last_sent becomes the time of sending.
SendMsg(chats, locs, c, now) ==
    IF KmlRows(chats, locs, c, now) # {}
    THEN SetKmlSentTimestamp(chats, c, now)
    ELSE chats

\* The window send_locations_to_chat writes: location.rs 203-216.
WindowOf(w, seconds, now) ==
    [w EXCEPT !.begin = IF 0 # seconds THEN now ELSE 0,
              !.until = IF 0 # seconds THEN now + seconds ELSE 0]

\* The message send_locations_to_chat puts into the chat: location.rs
\* 217-227.
StreamingMsgAlways(seconds, before) ==
    IF 0 # seconds THEN {"enabled"} ELSE {"disabled"}
StreamingMsg(seconds, before) ==
    IF 0 # seconds /\ ~before THEN {"enabled"}
    ELSE IF 0 = seconds /\ before THEN {"disabled"}
    ELSE {}

\* What send_locations_to_chat does after the UPDATE: location.rs 217-232.
SendLocationsAfterUpdate(updated, locs, c, now, msgs, seconds) ==
    [ret |-> "ok",
     chats |-> IF "enabled" \in msgs THEN SendMsg(updated, locs, c, now)
               ELSE updated,
     msgs |-> msgs,
     events |-> {"ChatModified"},
     interrupt |-> 0 # seconds]

\* send_locations_to_chat: location.rs 194-233.  sql_ok: the statements
\* of the call succeed.
SendLocationsToChat(chats, locs, c, seconds, now, sql_ok) ==
    IF seconds < 0 \/ ~sql_ok
    THEN [ret |-> "err", chats |-> chats, msgs |-> {}, events |-> {},
          interrupt |-> FALSE]
    ELSE SendLocationsAfterUpdate(
             [chats EXCEPT ![c] = WindowOf(@, seconds, now)], locs, c, now,
             StreamingMsg(seconds, IsSendingLocationsToChat(chats, c, now)),
             seconds)

\* The chats set finds streaming: location.rs 272-284.
LiveChats(chats, now) == {c \in LocChats : chats[c].until > now}

\* The INSERTs of set, chat by chat: location.rs 286-304.  stored: the
\* chats whose INSERT succeeds.
RECURSIVE InsertLocations(_, _, _, _, _, _)
InsertLocations(locs, stored, lat, lon, acc, now) ==
    IF stored = {} THEN locs
    ELSE InsertLocations(
             Append(locs,
                    LocRow(lat, lon, acc, now,
                           CHOOSE c \in stored : \A d \in stored : c <= d,
                           ContactSelf, 0)),
             stored \ {CHOOSE c \in stored : \A d \in stored : c <= d},
             lat, lon, acc, now)

\* What set returns: location.rs 267-269 and 310.
SetReturnStored(lat, lon, stored) == stored # {}
SetReturn(lat, lon, stored) == (lat = 0 /\ lon = 0) \/ stored # {}

\* set: location.rs 266-311.  query_ok: the SELECT succeeds; failing: the
\* chats whose INSERT fails.
Set(chats, locs, lat, lon, acc, now, query_ok, failing) ==
    LetIn(IF (lat = 0 /\ lon = 0) \/ ~query_ok THEN {}
          ELSE LiveChats(chats, now) \ failing,
          LAMBDA stored :
              [ret |-> SetReturn(lat, lon, stored),
               locs |-> InsertLocations(locs, stored, lat, lon, acc, now),
               stored |-> stored,
               events |-> IF stored # {} THEN {"LocationChanged"} ELSE {}])

\* ---- maybe_send_locations: location.rs 617-724 ----

\* The chats the SELECT of location.rs 622-645 returns.
StreamingRows(chats) == {c \in LocChats : chats[c].until > 0}
\* location.rs 648.
WindowOpen(w, now) == w.begin > 0 /\ w.until > now
\* Mutant: a location message may be sent 60 s after the last one.
CanSendLocationsAt60(w, now) == now >= w.last_sent + 60
\* can_send: location.rs 649.
CanSendLocations(w, now) == now > w.last_sent + 60
\* has_locations: location.rs 650-661.
HasLocations(w, locs) ==
    \E i \in 1..Len(locs) :
        /\ locs[i].from_id = ContactSelf
        /\ locs[i].timestamp >= w.begin
        /\ locs[i].timestamp > w.last_sent
        /\ locs[i].independent = 0

\* The chats that get a hidden LocationOnly message: location.rs 668-679.
LocationOnlyChats(chats, locs, now) ==
    {c \in StreamingRows(chats) :
        /\ WindowOpen(chats[c], now)
        /\ HasLocations(chats[c], locs)
        /\ CanSendLocations(chats[c], now)}
\* Mutant: every row the SELECT returns is switched off.
DisabledChatsAll(chats, now) == StreamingRows(chats)
\* The chats whose streaming is switched off: location.rs 699-719.
DisabledChats(chats, now) ==
    {c \in StreamingRows(chats) : ~WindowOpen(chats[c], now)}

\* The candidates of next_event in seconds: location.rs 663-666 and
\* 686-689; u64::try_from leaves out what is negative.
NextEvents(chats, locs, now) ==
    {chats[c].until - now :
         c \in {d \in StreamingRows(chats) : WindowOpen(chats[d], now)}}
    \cup {chats[c].last_sent + 61 - now :
         c \in {d \in StreamingRows(chats) :
                   /\ WindowOpen(chats[d], now)
                   /\ HasLocations(chats[d], locs)
                   /\ ~CanSendLocations(chats[d], now)
                   /\ chats[d].last_sent + 61 - now >= 0}}

\* The row of chat c after maybe_send_locations.
RowAfterLoop(chats, locs, c, now) ==
    IF c \in DisabledChats(chats, now)
    THEN [chats[c] EXCEPT !.begin = 0, !.until = 0]
    ELSE IF c \in LocationOnlyChats(chats, locs, now)
    THEN SendMsg(chats, locs, c, now)[c]
    ELSE chats[c]

\* maybe_send_locations: location.rs 617-724.  next_event: the seconds it
\* returns, -1 for None.
MaybeSendLocations(chats, locs, now) ==
    [chats |-> [c \in LocChats |-> RowAfterLoop(chats, locs, c, now)],
     posted |-> LocationOnlyChats(chats, locs, now),
     disabled |-> DisabledChats(chats, now),
     next_event |->
         IF NextEvents(chats, locs, now) = {} THEN -1
         ELSE CHOOSE n \in NextEvents(chats, locs, now) :
                  \A k \in NextEvents(chats, locs, now) : n <= k]

\* Mutant: the wait is at most a day.
LoopDurationCapped(next_event) ==
    IF next_event >= 0 /\ next_event < DaySecs THEN next_event ELSE DaySecs
\* The time location_loop waits: location.rs 600-604.
LoopDuration(next_event) == IF next_event >= 0 THEN next_event ELSE DaySecs

\* ---- the KML codec: location.rs 46-190 and 403-500 ----
\* A text is a sequence of characters.  A latitude, longitude or accuracy
\* is an f64 with at most two decimals, held as its number of hundredths:
\* the Display of such an f64 is the shortest decimal that names it.

Digits == <<"0", "1", "2", "3", "4", "5", "6", "7", "8", "9">>
DigitChar(d) == Digits[d + 1]
IsDigit(ch) == \E d \in 0..9 : Digits[d + 1] = ch
DigitOf(ch) == CHOOSE d \in 0..9 : Digits[d + 1] = ch
AllDigits(s) == \A i \in 1..Len(s) : IsDigit(s[i])

\* The decimal digits of a natural number.
RECURSIVE DecStr(_)
DecStr(n) ==
    IF n < 10 THEN <<DigitChar(n)>>
    ELSE Append(DecStr(n \div 10), DigitChar(n % 10))
\* {:0w}: zeros in front up to the width w.
RECURSIVE Pad(_, _)
Pad(s, w) == IF Len(s) >= w THEN s ELSE Pad(<<"0">> \o s, w)
\* The number a sequence of digits names.
RECURSIVE DigitsValue(_, _)
DigitsValue(s, n) ==
    IF n = 0 THEN 0 ELSE 10 * DigitsValue(s, n - 1) + DigitOf(s[n])
\* The place of the first ch in s, 0 if there is none.
IndexOf(s, ch) ==
    IF \E i \in 1..Len(s) : s[i] = ch
    THEN CHOOSE i \in 1..Len(s) : s[i] = ch /\ \A j \in 1..(i - 1) : s[j] # ch
    ELSE 0
Abs(n) == IF n < 0 THEN 0 - n ELSE n

\* format!("{}", f64): location.rs 456-462 and 493-497.
FmtFraction(r) ==
    IF r = 0 THEN <<>>
    ELSE IF r % 10 = 0 THEN <<".", DigitChar(r \div 10)>>
    ELSE <<".", DigitChar(r \div 10), DigitChar(r % 10)>>
FmtF64(v) ==
    (IF v < 0 THEN <<"-">> ELSE <<>>)
        \o DecStr(Abs(v) \div 100) \o FmtFraction(Abs(v) % 100)

\* str::parse::<f64>() of a decimal without exponent, and the
\* unwrap_or_default() around it: location.rs 124-125 and 186.
FractionValue(f) ==
    IF Len(f) = 0 THEN 0
    ELSE IF Len(f) = 1 THEN 10 * DigitOf(f[1])
    ELSE DigitsValue(f, 2)
UnsignedValid(int, frac) ==
    /\ AllDigits(int)
    /\ AllDigits(frac)
    /\ Len(int) + Len(frac) > 0
    /\ Len(frac) <= 2
UnsignedAt(u, dot) ==
    IF dot = 0
    THEN IF UnsignedValid(u, <<>>) THEN 100 * DigitsValue(u, Len(u)) ELSE 0
    ELSE IF UnsignedValid(SubSeq(u, 1, dot - 1), SubSeq(u, dot + 1, Len(u)))
    THEN 100 * DigitsValue(u, dot - 1)
             + FractionValue(SubSeq(u, dot + 1, Len(u)))
    ELSE 0
ParseF64OrDefault(s) ==
    IF Len(s) = 0 THEN 0
    ELSE IF s[1] = "-"
    THEN 0 - UnsignedAt(Tail(s), IndexOf(Tail(s), "."))
    ELSE IF s[1] = "+" THEN UnsignedAt(Tail(s), IndexOf(Tail(s), "."))
    ELSE UnsignedAt(s, IndexOf(s, "."))

\* chrono: the date of a day number counted from 1970-01-01.
DayOfEra(z) == (z + 719468) % 146097
YearOfEra(doe) ==
    (doe - doe \div 1460 + doe \div 36524 - doe \div 146096) \div 365
DayOfYear(doe, yoe) == doe - (365 * yoe + yoe \div 4 - yoe \div 100)
CivilAt(era, yoe, doy, mp) ==
    [y |-> yoe + era * 400 + (IF mp < 10 THEN 0 ELSE 1),
     m |-> IF mp < 10 THEN mp + 3 ELSE mp - 9,
     d |-> doy - (153 * mp + 2) \div 5 + 1]
CivilFromDays(z) ==
    CivilAt((z + 719468) \div 146097,
            YearOfEra(DayOfEra(z)),
            DayOfYear(DayOfEra(z), YearOfEra(DayOfEra(z))),
            (5 * DayOfYear(DayOfEra(z), YearOfEra(DayOfEra(z))) + 2) \div 153)
\* chrono: the day number of a date.
DaysAt(y, m, d) ==
    (y \div 400) * 146097 + (y % 400) * 365 + (y % 400) \div 4
        - (y % 400) \div 100
        + (153 * (IF m > 2 THEN m - 3 ELSE m + 9) + 2) \div 5 + d - 1 - 719468
DaysFromCivil(y, m, d) == DaysAt(IF m <= 2 THEN y - 1 ELSE y, m, d)
IsLeap(y) == y % 4 = 0 /\ (y % 100 # 0 \/ y % 400 = 0)
DaysIn(y, m) ==
    IF m = 2 THEN (IF IsLeap(y) THEN 29 ELSE 28)
    ELSE IF m \in {4, 6, 9, 11} THEN 30 ELSE 31

\* get_kml_timestamp: location.rs 478-483, for the years 0 to 9999.
FmtDate(c) ==
    Pad(DecStr(c.y), 4) \o <<"-">> \o Pad(DecStr(c.m), 2) \o <<"-">>
        \o Pad(DecStr(c.d), 2)
FmtTime(s) ==
    Pad(DecStr(s \div 3600), 2) \o <<":">>
        \o Pad(DecStr((s % 3600) \div 60), 2) \o <<":">>
        \o Pad(DecStr(s % 60), 2)
GetKmlTimestamp(utc) ==
    FmtDate(CivilFromDays(utc \div DaySecs)) \o <<"T">>
        \o FmtTime(utc % DaySecs) \o <<"Z">>

\* NaiveDateTime::parse_from_str(val, "%Y-%m-%dT%H:%M:%SZ") of a text in
\* the form YYYY-MM-DDTHH:MM:SSZ: location.rs 110.
Num(s, from, to) == DigitsValue(SubSeq(s, from, to), to - from + 1)
WhenShape(s) ==
    /\ Len(s) = 20
    /\ \A i \in 1..20 :
          IF i \in {5, 8} THEN s[i] = "-"
          ELSE IF i = 11 THEN s[i] = "T"
          ELSE IF i \in {14, 17} THEN s[i] = ":"
          ELSE IF i = 20 THEN s[i] = "Z"
          ELSE IsDigit(s[i])
WhenValid(s) ==
    /\ WhenShape(s)
    /\ Num(s, 6, 7) \in 1..12
    /\ Num(s, 9, 10) \in 1..DaysIn(Num(s, 1, 4), Num(s, 6, 7))
    /\ Num(s, 12, 13) < 24
    /\ Num(s, 15, 16) < 60
    /\ Num(s, 18, 19) < 60
WhenTimestamp(s) ==
    DaysFromCivil(Num(s, 1, 4), Num(s, 6, 7), Num(s, 9, 10)) * DaySecs
        + Num(s, 12, 13) * 3600 + Num(s, 15, 16) * 60 + Num(s, 18, 19)

\* The document as the events quick_xml reads from it.
XmlStart(name, attrs) == [kind |-> "Start", name |-> name, attrs |-> attrs,
                          text |-> <<>>]
XmlEnd(name) == [kind |-> "End", name |-> name, attrs |-> <<>>,
                 text |-> <<>>]
XmlText(text) == [kind |-> "Text", name |-> "", attrs |-> <<>>,
                  text |-> text]
XmlDecl == [kind |-> "Decl", name |-> "xml", attrs |-> <<>>, text |-> <<>>]
\* to_lowercase() of the names of the documents.
ToLowercase(name) ==
    CASE name = "Document" -> "document"
      [] name = "Placemark" -> "placemark"
      [] name = "Timestamp" -> "timestamp"
      [] name = "Point" -> "point"
      [] OTHER -> name

\* Location::new() as far as the codec goes, and Kml::new(): location.rs
\* 22-59.
NewLocation == [latitude |-> 0, longitude |-> 0, accuracy |-> 0,
                timestamp |-> 0]
NewKml == [addr |-> "", locations |-> <<>>, tag |-> {}, curr |-> NewLocation]
\* The fields of a row the codec carries.
LocationOf(row) ==
    [latitude |-> row.latitude, longitude |-> row.longitude,
     accuracy |-> row.accuracy, timestamp |-> row.timestamp]

\* The text without blanks: location.rs 102-106.
StripBlanks(s) == SelectSeq(s, LAMBDA ch : ch \notin {"\n", "\r", "\t", " "})

\* text_cb inside <when>: location.rs 107-121.
WhenText(kml, val, now) ==
    [kml EXCEPT !.curr.timestamp =
        IF WhenValid(val)
        THEN (IF WhenTimestamp(val) > now THEN now ELSE WhenTimestamp(val))
        ELSE now]
\* text_cb inside <coordinates>: location.rs 122-127.
CoordinatesText(kml, val, comma) ==
    IF comma = 0 THEN kml
    ELSE [kml EXCEPT
              !.curr.longitude = ParseF64OrDefault(SubSeq(val, 1, comma - 1)),
              !.curr.latitude =
                  ParseF64OrDefault(SubSeq(val, comma + 1, Len(val)))]
\* text_cb: location.rs 98-129.
TextCbOf(kml, val, now) ==
    IF "WHEN" \in kml.tag /\ Len(val) >= 19 THEN WhenText(kml, val, now)
    ELSE IF "COORDINATES" \in kml.tag
    THEN CoordinatesText(kml, val, IndexOf(val, ","))
    ELSE kml
TextCb(kml, e, now) ==
    IF "WHEN" \in kml.tag \/ "COORDINATES" \in kml.tag
    THEN TextCbOf(kml, StripBlanks(e.text), now)
    ELSE kml

\* endtag_cb: location.rs 131-146.
PlacemarkComplete(kml) ==
    /\ "PLACEMARK" \in kml.tag
    /\ 0 # kml.curr.timestamp
    /\ 0 # kml.curr.latitude
    /\ 0 # kml.curr.longitude
EndtagCb(kml, e) ==
    IF ToLowercase(e.name) = "placemark"
    THEN IF PlacemarkComplete(kml)
         THEN [kml EXCEPT !.locations = Append(@, kml.curr),
                          !.curr = NewLocation, !.tag = {}]
         ELSE [kml EXCEPT !.tag = {}]
    ELSE kml

\* The value of the first attribute with the key, <<>> if there is none.
HasAttr(e, key) == \E i \in 1..Len(e.attrs) : e.attrs[i].key = key
AttrValue(e, key) ==
    e.attrs[CHOOSE i \in 1..Len(e.attrs) :
                /\ e.attrs[i].key = key
                /\ \A j \in 1..(i - 1) : e.attrs[j].key # key].value
\* starttag_cb: location.rs 148-190.
StarttagCbOf(kml, e, tag) ==
    IF tag = "document"
    THEN IF HasAttr(e, "addr")
         THEN [kml EXCEPT !.addr = AttrValue(e, "addr")] ELSE kml
    ELSE IF tag = "placemark"
    THEN [kml EXCEPT !.tag = {"PLACEMARK"}, !.curr = NewLocation]
    ELSE IF tag = "timestamp" /\ "PLACEMARK" \in kml.tag
    THEN [kml EXCEPT !.tag = {"PLACEMARK", "TIMESTAMP"}]
    ELSE IF tag = "when" /\ "TIMESTAMP" \in kml.tag
    THEN [kml EXCEPT !.tag = {"PLACEMARK", "TIMESTAMP", "WHEN"}]
    ELSE IF tag = "point" /\ "PLACEMARK" \in kml.tag
    THEN [kml EXCEPT !.tag = {"PLACEMARK", "POINT"}]
    ELSE IF tag = "coordinates" /\ "POINT" \in kml.tag
    THEN [kml EXCEPT
              !.tag = {"PLACEMARK", "POINT", "COORDINATES"},
              !.curr.accuracy =
                  IF HasAttr(e, "accuracy")
                  THEN ParseF64OrDefault(StripBlanks(AttrValue(e, "accuracy")))
                  ELSE @]
    ELSE kml
StarttagCb(kml, e) == StarttagCbOf(kml, e, ToLowercase(e.name))

\* One turn of the loop of Kml::parse: location.rs 76-93.
KmlEvent(kml, e, now) ==
    IF e.kind = "Start" THEN StarttagCb(kml, e)
    ELSE IF e.kind = "End" THEN EndtagCb(kml, e)
    ELSE IF e.kind = "Text" THEN TextCb(kml, e, now)
    ELSE kml
RECURSIVE KmlParseFrom(_, _, _, _)
KmlParseFrom(kml, doc, i, now) ==
    IF i > Len(doc) THEN kml
    ELSE KmlParseFrom(KmlEvent(kml, doc[i], now), doc, i + 1, now)
\* Kml::parse: location.rs 65-96.
KmlParse(doc, now) == KmlParseFrom(NewKml, doc, 1, now)

\* get_primary_self_addr().
LocSelfAddr == "alice@example.org"

\* One <Placemark> of get_kml: location.rs 454-463.
Placemark(row) ==
    <<XmlStart("Placemark", <<>>), XmlStart("Timestamp", <<>>),
      XmlStart("when", <<>>), XmlText(GetKmlTimestamp(row.timestamp)),
      XmlEnd("when"), XmlEnd("Timestamp"), XmlStart("Point", <<>>),
      XmlStart("coordinates",
               <<[key |-> "accuracy", value |-> FmtF64(row.accuracy)]>>),
      XmlText(FmtF64(row.longitude) \o <<",">> \o FmtF64(row.latitude)),
      XmlEnd("coordinates"), XmlEnd("Point"), XmlEnd("Placemark")>>
\* One <Placemark> of get_message_kml: location.rs 489-492.
MessagePlacemark(timestamp, latitude, longitude) ==
    <<XmlStart("Placemark", <<>>), XmlStart("Timestamp", <<>>),
      XmlStart("when", <<>>), XmlText(GetKmlTimestamp(timestamp)),
      XmlEnd("when"), XmlEnd("Timestamp"), XmlStart("Point", <<>>),
      XmlStart("coordinates", <<>>),
      XmlText(FmtF64(longitude) \o <<",">> \o FmtF64(latitude)),
      XmlEnd("coordinates"), XmlEnd("Point"), XmlEnd("Placemark")>>

\* The rows of the query of get_kml in their order: one row for each
\* timestamp (GROUP BY timestamp, the last row of the group), ORDER BY
\* timestamp: location.rs 428-445.
GroupRow(locs, rows, ts) ==
    CHOOSE i \in rows :
        /\ locs[i].timestamp = ts
        /\ \A j \in rows : locs[j].timestamp = ts => j <= i
FirstTimestamp(locs, rows) ==
    CHOOSE ts \in {locs[i].timestamp : i \in rows} :
        \A j \in rows : ts <= locs[j].timestamp
RECURSIVE OrderedRows(_, _)
OrderedRows(locs, rows) ==
    IF rows = {} THEN <<>>
    ELSE <<GroupRow(locs, rows, FirstTimestamp(locs, rows))>>
         \o OrderedRows(locs,
                {i \in rows :
                    locs[i].timestamp # FirstTimestamp(locs, rows)})
RECURSIVE Placemarks(_, _, _)
Placemarks(locs, ids, i) ==
    IF i > Len(ids) THEN <<>>
    ELSE Placemark(locs[ids[i]]) \o Placemarks(locs, ids, i + 1)

\* get_kml: location.rs 403-476.  ids: the rows in the document; last: the
\* last_added_location_id.
GetKmlOf(locs, ids) ==
    IF Len(ids) = 0
    THEN [ret |-> "err", doc |-> <<>>, ids |-> <<>>, last |-> 0]
    ELSE [ret |-> "ok",
          doc |-> <<XmlDecl,
                    XmlStart("kml", <<[key |-> "xmlns",
                                       value |-> <<>>]>>),
                    XmlStart("Document", <<[key |-> "addr",
                                            value |-> LocSelfAddr]>>)>>
                  \o Placemarks(locs, ids, 1)
                  \o <<XmlEnd("Document"), XmlEnd("kml")>>,
          ids |-> ids, last |-> ids[Len(ids)]]
GetKml(chats, locs, c, now) ==
    GetKmlOf(locs, OrderedRows(locs, KmlRows(chats, locs, c, now)))

\* get_message_kml: location.rs 485-500.
GetMessageKml(timestamp, latitude, longitude) ==
    <<XmlDecl, XmlStart("kml", <<[key |-> "xmlns", value |-> <<>>]>>),
      XmlStart("Document", <<>>)>>
        \o MessagePlacemark(timestamp, latitude, longitude)
        \o <<XmlEnd("Document"), XmlEnd("kml")>>

\* save: location.rs 531-588.  Returns the rows and the id of the newest
\* row it has added, 0 for None.
RowExists(locs, timestamp, contact) ==
    \E i \in 1..Len(locs) :
        locs[i].timestamp = timestamp /\ locs[i].from_id = contact
SaveOne(st, l, c, contact, independent) ==
    IF independent \/ ~RowExists(st.locs, l.timestamp, contact)
    THEN [locs |-> Append(st.locs,
                          LocRow(l.latitude, l.longitude, l.accuracy,
                                 l.timestamp, c, contact,
                                 IF independent THEN 1 ELSE 0)),
          newest_timestamp |-> IF l.timestamp > st.newest_timestamp
                               THEN l.timestamp ELSE st.newest_timestamp,
          newest_location_id |-> IF l.timestamp > st.newest_timestamp
                                 THEN Len(st.locs) + 1
                                 ELSE st.newest_location_id]
    ELSE st
RECURSIVE SaveFrom(_, _, _, _, _, _)
SaveFrom(st, ls, i, c, contact, independent) ==
    IF i > Len(ls) THEN st
    ELSE SaveFrom(SaveOne(st, ls[i], c, contact, independent), ls, i + 1, c,
                  contact, independent)
Save(locs, c, contact, ls, independent) ==
    SaveFrom([locs |-> locs, newest_timestamp |-> 0,
              newest_location_id |-> 0], ls, 1, c, contact, independent)

\* What the last call of the codec made: the document, the locations it
\* was made from, the locations Kml::parse read.
NoKml == [op |-> "none", via |-> "none", ret |-> "none", doc |-> <<>>,
          src |-> <<>>, locations |-> <<>>, addr |-> "", at |-> 0]


\* ---- the state of the location subsystem ----
NoLoc == [op |-> "none", chat |-> 0, seconds |-> 0, ret |-> "none",
          msgs |-> {}, interrupt |-> FALSE, before |-> NoWindow, at |-> 0,
          point |-> <<0, 0>>, live |-> {}, failing |-> {}, nlocs |-> 0]

\* maybe_send_locations is not under way.
NoScan == [rows |-> <<>>, now |-> 0, next_event |-> -1]

\* A new account at time LocEpoch; pc is "off" while IO is not started and
\* "run" when location_loop has been spawned.
LocStart(pc) ==
    /\ loc_now = LocEpoch
    /\ loc_chats = [c \in LocChats |-> NoWindow]
    /\ locations = <<>>
    /\ loc_pc = pc
    /\ loc_wake = 0
    /\ loc_interrupt = FALSE
    /\ loc_posted = [c \in LocChats |-> 0]
    /\ loc_log = [c \in LocChats |-> <<>>]
    /\ loc_calls = 0
    /\ loc_ticks = 0
    /\ loc_out = NoLoc
    /\ kml_last = NoKml
    /\ loc_scan = NoScan
LocIdle == LocStart("off")

\* Context::interrupt_location: a signal into the channel of capacity 1 on
\* which location_loop waits; nothing while IO is not started.
InterruptLocation(pending, interrupt, pc) ==
    IF pc = "off" THEN pending ELSE pending \/ interrupt

\* The windows and coordinates the API is called with.
LocSeconds == {-1, 0, 60, 3600}
\* Latitude and longitude in hundredths of a degree and the accuracy in
\* metres: no position, one on the equator, one off it.
LocPoints == {<<0, 0, 0>>, <<0, 942, 32>>, <<5379, 942, 32>>}

\* send_locations_to_chat: location.rs 194-233.
LocSendLocationsToChat(c, seconds, sql_ok) ==
    /\ loc_calls < MaxLocCalls
    /\ \E r \in {SendLocationsToChat(loc_chats, locations, c, seconds,
                                     loc_now, sql_ok)} :
        /\ loc_chats' = r.chats
        /\ loc_interrupt' = InterruptLocation(loc_interrupt, r.interrupt,
                                              loc_pc)
        /\ loc_log' = [loc_log EXCEPT
                           ![c] = IF r.msgs = {} THEN @
                                  ELSE Append(@, CHOOSE m \in r.msgs : TRUE)]
        /\ loc_out' = [NoLoc EXCEPT
                           !.op = "send_locations_to_chat", !.chat = c,
                           !.seconds = seconds, !.ret = r.ret,
                           !.msgs = r.msgs, !.interrupt = r.interrupt,
                           !.before = loc_chats[c], !.at = loc_now]
    /\ loc_calls' = loc_calls + 1
    /\ UNCHANGED <<loc_now, locations, loc_pc, loc_wake, loc_posted,
                   loc_ticks, kml_last, loc_scan, notLoc>>

\* set: location.rs 266-311.
LocSet(lat, lon, acc, query_ok, failing) ==
    /\ loc_calls < MaxLocCalls
    /\ \E r \in {Set(loc_chats, locations, lat, lon, acc, loc_now, query_ok,
                     failing)} :
        /\ locations' = r.locs
        /\ loc_out' = [NoLoc EXCEPT
                           !.op = "set", !.ret = r.ret, !.at = loc_now,
                           !.point = <<lat, lon>>,
                           !.live = IF query_ok
                                    THEN {c \in LocChats :
                                             loc_chats[c].until > loc_now}
                                    ELSE {},
                           !.failing = failing, !.nlocs = Len(locations)]
    /\ loc_calls' = loc_calls + 1
    /\ UNCHANGED <<loc_now, loc_chats, loc_pc, loc_wake, loc_interrupt,
                   loc_posted, loc_log, loc_ticks, kml_last, loc_scan, notLoc>>

\* location_loop calls maybe_send_locations and starts to wait for the
\* time it returned or for an interrupt: location.rs 590-613.
LocLoopRun ==
    /\ loc_pc = "run"
    /\ \E r \in {MaybeSendLocations(loc_chats, locations, loc_now)} :
        /\ loc_chats' = r.chats
        /\ loc_posted' = [c \in LocChats |->
                             IF c \in r.posted THEN loc_now ELSE loc_posted[c]]
        /\ loc_log' = [c \in LocChats |->
                          IF c \in r.disabled
                          THEN Append(loc_log[c], "disabled")
                          ELSE IF c \in r.posted
                          THEN Append(loc_log[c], "LocationOnly")
                          ELSE loc_log[c]]
        /\ loc_wake' = loc_now + LoopDuration(r.next_event)
    /\ loc_pc' = "wait"
    /\ UNCHANGED <<loc_now, locations, loc_interrupt, loc_calls, loc_ticks,
                   loc_out, kml_last, loc_scan, notLoc>>

\* The wait of location_loop ends: a signal has arrived or the time is
\* over (location.rs 611).
LocLoopWake ==
    /\ loc_pc = "wait"
    /\ loc_interrupt \/ loc_now >= loc_wake
    /\ loc_interrupt' = FALSE
    /\ loc_pc' = "run"
    /\ UNCHANGED <<loc_now, loc_chats, locations, loc_wake, loc_posted,
                   loc_log, loc_calls, loc_ticks, loc_out, kml_last,
                   loc_scan, notLoc>>

\* ---- maybe_send_locations statement by statement ----
\* The rows of the SELECT in the order of the chat ids, as they are read.
RECURSIVE ScanRows(_, _)
ScanRows(chats, ids) ==
    IF ids = {} THEN <<>>
    ELSE <<[id |-> CHOOSE c \in ids : \A d \in ids : c <= d,
            w |-> chats[CHOOSE c \in ids : \A d \in ids : c <= d]]>>
         \o ScanRows(chats, ids \ {CHOOSE c \in ids : \A d \in ids : c <= d})

\* The least of next_event and a further candidate: location.rs 663-666.
ChainMin(next_event, n) ==
    IF n < 0 THEN next_event
    ELSE IF next_event < 0 THEN n
    ELSE MinOf(next_event, n)

\* next_event after the row w that was read: location.rs 663-666, 686-689.
NextEventAfter(next_event, w, locs, now) ==
    IF HasLocations(w, locs) /\ ~CanSendLocations(w, now)
    THEN ChainMin(ChainMin(next_event, w.until - now),
                  w.last_sent + 61 - now)
    ELSE ChainMin(next_event, w.until - now)

\* location_loop enters maybe_send_locations, which reads the time and the
\* rows of the streaming chats: location.rs 620-646.
LocLoopSelect ==
    /\ loc_pc = "run"
    /\ loc_pc' = "scan"
    /\ loc_scan' = [rows |-> ScanRows(loc_chats, StreamingRows(loc_chats)),
                    now |-> loc_now, next_event |-> -1]
    /\ UNCHANGED <<loc_now, loc_chats, locations, loc_wake, loc_interrupt,
                   loc_posted, loc_log, loc_calls, loc_ticks, loc_out,
                   kml_last, notLoc>>

\* The body of the for loop for the next row that was read: location.rs
\* 647-721.  The tests are made on the row as it was read, the UPDATE and
\* the send act on the table as it is now.
LocLoopRow ==
    /\ loc_pc = "scan"
    /\ loc_scan.rows # <<>>
    /\ \E r \in {Head(loc_scan.rows)} :
        IF WindowOpen(r.w, loc_scan.now)
        THEN /\ loc_scan' =
                    [loc_scan EXCEPT
                        !.rows = Tail(@),
                        !.next_event = NextEventAfter(@, r.w, locations,
                                                      loc_scan.now)]
             /\ IF HasLocations(r.w, locations)
                   /\ CanSendLocations(r.w, loc_scan.now)
                THEN /\ loc_chats' = SendMsg(loc_chats, locations, r.id,
                                             loc_now)
                     /\ loc_posted' = [loc_posted EXCEPT ![r.id] = loc_now]
                     /\ loc_log' = [loc_log EXCEPT
                                        ![r.id] = Append(@, "LocationOnly")]
                ELSE UNCHANGED <<loc_chats, loc_posted, loc_log>>
        ELSE /\ loc_scan' = [loc_scan EXCEPT !.rows = Tail(@)]
             /\ loc_chats' = [loc_chats EXCEPT
                                 ![r.id] = [@ EXCEPT !.begin = 0,
                                                     !.until = 0]]
             /\ loc_log' = [loc_log EXCEPT ![r.id] = Append(@, "disabled")]
             /\ UNCHANGED loc_posted
    /\ UNCHANGED <<loc_now, locations, loc_pc, loc_wake, loc_interrupt,
                   loc_calls, loc_ticks, loc_out, kml_last, notLoc>>

\* maybe_send_locations returns and location_loop starts to wait:
\* location.rs 600-611 and 723.
LocLoopSleep ==
    /\ loc_pc = "scan"
    /\ loc_scan.rows = <<>>
    /\ loc_wake' = loc_now + LoopDuration(loc_scan.next_event)
    /\ loc_pc' = "wait"
    /\ loc_scan' = NoScan
    /\ UNCHANGED <<loc_now, loc_chats, locations, loc_interrupt, loc_posted,
                   loc_log, loc_calls, loc_ticks, loc_out, kml_last, notLoc>>

\* Time passes.  A running location_loop runs as soon as it can, so the
\* clock does not pass the end of its wait.
LocSteps == {1, 62}
LocTick(d) ==
    /\ loc_ticks < MaxLocTicks
    /\ \/ loc_pc = "off"
       \/ loc_pc = "wait" /\ ~loc_interrupt /\ loc_now + d <= loc_wake
    /\ loc_now' = loc_now + d
    /\ loc_ticks' = loc_ticks + 1
    /\ UNCHANGED <<loc_chats, locations, loc_pc, loc_wake, loc_interrupt,
                   loc_posted, loc_log, loc_calls, loc_out, kml_last,
                   loc_scan, notLoc>>
\* Time passes up to the end of the wait.
LocTickToWake ==
    /\ loc_ticks < MaxLocTicks
    /\ loc_pc = "wait"
    /\ ~loc_interrupt
    /\ loc_now < loc_wake
    /\ loc_now' = loc_wake
    /\ loc_ticks' = loc_ticks + 1
    /\ UNCHANGED <<loc_chats, locations, loc_pc, loc_wake, loc_interrupt,
                   loc_posted, loc_log, loc_calls, loc_out, kml_last,
                   loc_scan, notLoc>>


\* ---- the calls of the codec ----
\* The locations a received location.kml brings: one in the southern
\* hemisphere on 2000-02-29, one on the prime meridian.
SaveLocations ==
    {[latitude |-> -3392, longitude |-> 1842, accuracy |-> 250,
      timestamp |-> 951865199],
     [latitude |-> 5148, longitude |-> 0, accuracy |-> 5,
      timestamp |-> LocEpoch]}

\* save: location.rs 531-588, called with one location.
LocSave(c, contact, l, independent) ==
    /\ loc_calls < MaxLocCalls
    /\ locations' = Save(locations, c, contact, <<l>>, independent).locs
    /\ loc_out' = [NoLoc EXCEPT !.op = "save", !.chat = c, !.at = loc_now,
                                !.point = <<l.latitude, l.longitude>>,
                                !.nlocs = Len(locations)]
    /\ loc_calls' = loc_calls + 1
    /\ UNCHANGED <<loc_now, loc_chats, loc_pc, loc_wake, loc_interrupt,
                   loc_posted, loc_log, loc_ticks, kml_last, loc_scan, notLoc>>

\* get_kml: location.rs 403-476.
KmlGetKml(c) ==
    /\ \E r \in {GetKml(loc_chats, locations, c, loc_now)} :
        kml_last' = [NoKml EXCEPT
                    !.op = "get_kml", !.via = "get_kml", !.ret = r.ret,
                    !.doc = r.doc,
                    !.src = [i \in 1..Len(r.ids) |->
                                LocationOf(locations[r.ids[i]])],
                    !.at = loc_now]
    /\ UNCHANGED <<loc_now, loc_chats, locations, loc_pc, loc_wake,
                   loc_interrupt, loc_posted, loc_log, loc_calls, loc_ticks,
                   loc_out, loc_scan, notLoc>>

\* get_message_kml for the stored location i: location.rs 485-500.
KmlGetMessageKml(i) ==
    /\ i \in 1..Len(locations)
    /\ kml_last' = [NoKml EXCEPT
                   !.op = "get_message_kml", !.via = "get_message_kml",
                   !.ret = "ok",
                   !.doc = GetMessageKml(locations[i].timestamp,
                                         locations[i].latitude,
                                         locations[i].longitude),
                   !.src = <<LocationOf(locations[i])>>,
                   !.at = loc_now]
    /\ UNCHANGED <<loc_now, loc_chats, locations, loc_pc, loc_wake,
                   loc_interrupt, loc_posted, loc_log, loc_calls, loc_ticks,
                   loc_out, loc_scan, notLoc>>

\* Kml::parse of the document made last: location.rs 65-96.
KmlParseDoc ==
    /\ kml_last.op \in {"get_kml", "get_message_kml"}
    /\ kml_last.ret = "ok"
    /\ \E r \in {KmlParse(kml_last.doc, loc_now)} :
        kml_last' = [kml_last EXCEPT !.op = "parse", !.locations = r.locations,
                           !.addr = r.addr, !.at = loc_now]
    /\ UNCHANGED <<loc_now, loc_chats, locations, loc_pc, loc_wake,
                   loc_interrupt, loc_posted, loc_log, loc_calls, loc_ticks,
                   loc_out, loc_scan, notLoc>>


\* ===================================================================
\*                          Specifications
\* ===================================================================

\* ---- the ongoing-process calls of concurrent tasks ----
InitOngoing == OngoingIdle /\ IoIdle /\ SjIdle /\ EncIdle /\ DecIdle /\ RlIdle
    /\ LocIdle

NextOngoing ==
    \/ \E t \in Tasks : AllocOngoing(t)
    \/ \E t \in Tasks : FreeOngoing(t)
    \/ \E t \in Tasks : StopOngoing(t)
    \/ \E t \in Tasks : ShallStopOngoing(t)
    \/ \E c \in Chans : TryRecv(c)
    \/ \E c \in Chans : DropReceiver(c)

SpecOngoing == InitOngoing /\ [][NextOngoing]_vars

\* ---- start_io and stop_io of concurrent tasks ----
InitIo ==
    /\ OngoingIdle
    /\ LocIdle
    /\ SjIdle
    /\ EncIdle
    /\ DecIdle
    /\ RlIdle
    /\ configured \in BOOLEAN
    /\ scheduler = 0
    /\ sched_lock = 0
    /\ io_pc = [t \in Tasks |-> "idle"]
    /\ taken = [t \in Tasks |-> 0]
    /\ workers = [s \in Scheds |-> 0]
    /\ stopping = [s \in Scheds |-> FALSE]
    /\ started_epoch = 0
    /\ start_done = 0
    /\ start_failed = FALSE
    /\ io_last = [op |-> "none", task |-> 0, slot |-> 0, sched |-> 0, new |-> 0]

NextIo ==
    \/ \E t \in Tasks, db_ok \in BOOLEAN : StartIoBegin(t, db_ok)
    \/ \E t \in Tasks : StartIoLock(t)
    \/ \E t \in Tasks, start_ok \in BOOLEAN : StartIoRun(t, start_ok)
    \/ \E t \in Tasks : StopIoTake(t)
    \/ \E s \in Scheds : WorkerExit(s)
    \/ \E t \in Tasks : StopIoDone(t)

SpecIo == InitIo /\ [][NextIo]_vars

InitInviter == OngoingIdle /\ IoIdle /\ SjIdle /\ EncIdle /\ DecIdle /\ RlIdle
    /\ LocIdle

NextInviter ==
    \/ \E q \in QrKinds : InviterGetQr(q)
    \/ \E m \in InMsgs : InviterReceive(m)

SpecInviter == InitInviter /\ [][NextInviter]_vars

InitObserver == OngoingIdle /\ IoIdle /\ SjIdle /\ EncIdle /\ DecIdle /\ RlIdle
    /\ LocIdle

NextObserver ==
    \/ \E m \in PeerMsgs : ObserverReceive(m)
    \/ \E m \in SelfMsgs : ObserverObserve(m)

SpecObserver == InitObserver /\ [][NextObserver]_vars

\* ---- a device on which the save of a verification can fail ----
\* The request-with-auth messages that carry bob's Autocrypt header and the
\* self-sent messages, with bob's fingerprint or none and one auth token or
\* none, and the mail that brings bob's key.
SaveMsgs ==
    {m \in RequestWithAuthMsgs \cup SelfMsgs :
        /\ m.ac \in {"KA", "KB"}
        /\ m.grp \in {NoHdr, TheGroup}
        /\ m.auth \in {NoHdr, "s0"}
        /\ m.fp \in {NoHdr, "KB"}}
    \cup PeerMsgs

InitSave == OngoingIdle /\ IoIdle /\ SjIdle /\ EncIdle /\ DecIdle /\ RlIdle
    /\ LocIdle

NextSave ==
    \/ \E q \in QrKinds : InviterGetQr(q)
    \/ \E m \in SaveMsgs, fails \in BOOLEAN : SaveReceive(m, fails)

SpecSave == InitSave /\ [][NextSave]_vars

InitSj == OngoingIdle /\ IoIdle /\ SjIdle /\ EncIdle /\ DecIdle /\ RlIdle
    /\ LocIdle

NextSj ==
    \/ \E q \in QrKinds : SjGetQr(q)
    \/ \E q \in QrKinds : SjJoin(q)
    \/ SjJoinStale
    \/ SjMail
    \/ \E m \in net : SjDeliver(m)

SpecSj == InitSj /\ [][NextSj]_vars

\* ---- should_encrypt and encrypt over every recipient list ----
InitEncrypt ==
    /\ OngoingIdle
    /\ LocIdle
    /\ IoIdle
    /\ SjIdle
    /\ DecIdle
    /\ RlIdle
    /\ prefer_encrypt \in EncryptPreferences
    /\ min_verified \in VerifiedStatuses
    /\ peerstates = <<>>
    /\ enc_last = NoEnc

NextEncrypt ==
    \/ \E o \in Recipients : EncAddRecipient(o)
    \/ \E i \in 1..MaxPeers : EncSwapRecipients(i)
    \/ \E g \in BOOLEAN : EncShouldEncrypt(g)
    \/ EncEncrypt

SpecEncrypt == InitEncrypt /\ [][NextEncrypt]_vars

\* ---- try_decrypt over every incoming message ----
InitDecrypt == OngoingIdle /\ IoIdle /\ SjIdle /\ EncIdle /\ DecIdle /\ RlIdle
    /\ LocIdle

NextDecrypt == \E mail \in Mails : DecReceive(mail)

SpecDecrypt == InitDecrypt /\ [][NextDecrypt]_vars

\* ---- one message mangled by relays, then decrypted ----
InitMime ==
    /\ OngoingIdle /\ IoIdle /\ SjIdle /\ EncIdle /\ RlIdle /\ LocIdle
    /\ peerstate_db = [a \in FromAddrs |-> None]
    /\ dec_last = NoDec
    /\ mime_mail \in MimeMails
    /\ mime_env = mime_mail
    /\ mime_path = <<>>
    /\ mime_out = NoMimeOut

NextMime == MimeMixUp \/ MimeAttach \/ MimeDecrypt

SpecMime == InitMime /\ [][NextMime]_vars

\* ---- the rate limiter of one Context under a moving clock ----
InitRatelimit ==
    /\ OngoingIdle
    /\ LocIdle
    /\ IoIdle
    /\ SjIdle
    /\ EncIdle
    /\ DecIdle
    /\ last_update = DurZero
    /\ current_value = F64Zero
    /\ clock = DurZero
    /\ from_secs_f64 \in FromSecsF64Versions
    /\ rl_sends = 0
    /\ rl_ticks = 0
    /\ rl_last = NoRl
    /\ rl_sent = NoSent
    /\ rl_mark = NoMark

NextRatelimit ==
    \/ \E d \in Waits : RlTick(d)
    \/ RlSleep
    \/ RlCanSend
    \/ RlSend
    \/ RlUntilCanSend

SpecRatelimit == InitRatelimit /\ [][NextRatelimit]_vars

\* ---- a burst of sends, quiet time, and the calls after it ----
InitQuiet == OngoingIdle /\ IoIdle /\ SjIdle /\ EncIdle /\ DecIdle /\ RlIdle
    /\ LocIdle

NextQuiet ==
    \/ \E d \in QuietWaits : RlTick(d)
    \/ RlCanSend
    \/ RlSendWithin(MaxBurst)
    \/ RlUntilCanSend

SpecQuiet == InitQuiet /\ [][NextQuiet]_vars

\* ---- location streaming: the API and the clock, IO not started ----
InitLocation ==
    /\ OngoingIdle
    /\ IoIdle
    /\ SjIdle
    /\ EncIdle
    /\ DecIdle
    /\ RlIdle
    /\ LocIdle

NextLocation ==
    \/ \E c \in LocChats, seconds \in LocSeconds, sql_ok \in BOOLEAN :
           LocSendLocationsToChat(c, seconds, sql_ok)
    \/ \E p \in LocPoints, query_ok \in BOOLEAN, failing \in SUBSET LocChats :
           LocSet(p[1], p[2], p[3], query_ok, failing)
    \/ LocTick(60)

SpecLocation == InitLocation /\ [][NextLocation]_vars

\* ---- the rate limiter under a system clock that is set back ----
InitClock == OngoingIdle /\ IoIdle /\ SjIdle /\ EncIdle /\ DecIdle /\ RlIdle
    /\ LocIdle

NextClock ==
    \/ \E t \in Readings : ClockPass(t)
    \/ \E t \in Readings : StaleCanSend(t)
    \/ ClockCanSend
    \/ RlCanSend
    \/ RlUntilCanSend
    \/ ClockSend

SpecClock == InitClock /\ [][NextClock]_vars

\* ---- location streaming while IO runs: location_loop and the clock ----
InitLoop ==
    /\ OngoingIdle
    /\ IoIdle
    /\ SjIdle
    /\ EncIdle
    /\ DecIdle
    /\ RlIdle
    /\ LocStart("run")

NextLoop ==
    \/ \E c \in LocChats, seconds \in {60, 3600} :
           LocSendLocationsToChat(c, seconds, TRUE)
    \/ LocSet(5379, 942, 32, TRUE, {})
    \/ LocLoopRun
    \/ LocLoopWake
    \/ \E d \in LocSteps : LocTick(d)
    \/ LocTickToWake

SpecLoop == InitLoop /\ [][NextLoop]_vars

\* ---- location_loop on the tables an earlier run has left ----
\* The rows of a chat when IO starts at LocEpoch: never streamed, or
\* streaming enabled 100 s ago for 99 s or for 3600 s, with nothing sent
\* yet or the last location message sent 61 or 60 s ago.
ResumeWindows ==
    {NoWindow} \cup
    {[begin |-> LocEpoch - 100, until |-> u, last_sent |-> l] :
         u \in {LocEpoch - 1, LocEpoch + 3500},
         l \in {0, LocEpoch - 61, LocEpoch - 60}}
\* The rows of the other chat: never streamed, or streaming with the last
\* location message sent 61 s ago.
ResumeOther ==
    {NoWindow,
     [begin |-> LocEpoch - 100, until |-> LocEpoch + 3500,
      last_sent |-> LocEpoch - 61]}
\* The locations table: empty, or one row stored 30 s ago by set or with
\* a message.
ResumeLocations ==
    {<<>>} \cup
    {<<LocRow(5379, 942, 32, LocEpoch - 30, 10, ContactSelf, i)>> :
         i \in {0, 1}}

InitResume ==
    /\ OngoingIdle /\ IoIdle /\ SjIdle /\ EncIdle /\ DecIdle /\ RlIdle
    /\ loc_now = LocEpoch
    /\ loc_chats \in {ch \in [LocChats -> ResumeWindows] :
                         ch[11] \in ResumeOther}
    /\ locations \in ResumeLocations
    /\ loc_pc = "run"
    /\ loc_wake = 0
    /\ loc_interrupt = FALSE
    /\ loc_posted = [c \in LocChats |-> 0]
    /\ loc_log = [c \in LocChats |-> <<>>]
    /\ loc_calls = 0
    /\ loc_ticks = 0
    /\ loc_out = NoLoc
    /\ kml_last = NoKml
    /\ loc_scan = NoScan

\* A window of more than a day.
LongWindow == 90000

NextResume ==
    \/ \E seconds \in {0, LongWindow} :
           LocSendLocationsToChat(10, seconds, TRUE)
    \/ LocSet(5379, 942, 32, TRUE, {})
    \/ LocLoopRun
    \/ LocLoopWake
    \/ \E d \in LocSteps : LocTick(d)
    \/ LocTickToWake

SpecResume == InitResume /\ [][NextResume]_vars

\* ---- location_loop interleaved with the calls of other tasks ----
InitRace ==
    /\ OngoingIdle /\ IoIdle /\ SjIdle /\ EncIdle /\ DecIdle /\ RlIdle
    /\ LocStart("run")

NextRace ==
    \/ \E c \in LocChats, seconds \in {60, 3600} :
           LocSendLocationsToChat(c, seconds, TRUE)
    \/ LocSet(5379, 942, 32, TRUE, {})
    \/ LocLoopSelect
    \/ LocLoopRow
    \/ LocLoopSleep
    \/ LocLoopWake
    \/ \E d \in LocSteps : LocTick(d)
    \/ LocTickToWake

SpecRace == InitRace /\ [][NextRace]_vars

\* ---- the KML codec on the locations an account stores ----
InitKml ==
    /\ OngoingIdle
    /\ IoIdle
    /\ SjIdle
    /\ EncIdle
    /\ DecIdle
    /\ RlIdle
    /\ LocIdle
NextKml ==
    \/ LocSendLocationsToChat(10, 3600, TRUE)
    \/ \E p \in LocPoints \ {<<0, 0, 0>>} :
           LocSet(p[1], p[2], p[3], TRUE, {})
    \/ \E contact \in {ContactSelf, ContactPeer}, l \in SaveLocations,
          independent \in BOOLEAN :
           LocSave(11, contact, l, independent)
    \/ \E c \in LocChats : KmlGetKml(c)
    \/ \E i \in 1..MaxLocCalls : KmlGetMessageKml(i)
    \/ KmlParseDoc
    \/ LocTick(60)
SpecKml == InitKml /\ [][NextKml]_vars

\* ------------------------------------------------------------ claims C1-C3

\* C1: at most one ongoing operation is allocated at any time: alloc_ongoing
\* succeeds exactly when the state it finds is Stopped (it fails in Running
\* and in ShallStop and then changes nothing), a non-Stopped state becomes
\* Stopped only through free_ongoing, and free_ongoing leaves Stopped, from
\* which the next alloc_ongoing succeeds.
C1_SingleOngoing ==
    /\ live <= 1
    /\ (live = 1) = (running_state # "Stopped")
    /\ ongoing_last.op = "alloc" =>
          /\ ongoing_last.ok = (ongoing_last.pre = "Stopped")
          /\ ongoing_last.ok => running_state = "Running"
          /\ ~ongoing_last.ok => running_state = ongoing_last.pre
    /\ (ongoing_last.pre # "Stopped" /\ running_state = "Stopped")
          => ongoing_last.op = "free"
    /\ ongoing_last.op = "free" => running_state = "Stopped"

\* C1 witness: a second operation was allocated after a free_ongoing, a stop
\* was requested, and a further alloc_ongoing has just failed in ShallStop.
C1_Witness ==
    /\ nchan = 2
    /\ ongoing_last.op = "alloc"
    /\ ~ongoing_last.ok
    /\ ongoing_last.pre = "ShallStop"

\* C2: stop_ongoing on a Running operation puts exactly one signal into the
\* channel whose Receiver alloc_ongoing returned (none when that Receiver was
\* dropped) and moves the state to ShallStop; no channel ever carries a second
\* signal; a stop_ongoing in another state sends nothing and changes nothing;
\* ShallStop is left only by free_ongoing, to Stopped.
C2_SingleShotCancel ==
    /\ \A c \in Chans : Sent(c) <= 1
    /\ (ongoing_last.op = "stop" /\ ongoing_last.pre = "Running") =>
          /\ running_state = "ShallStop"
          /\ ~stop_blocked
          /\ ongoing_last.sent = (IF ongoing_last.rx THEN 1 ELSE 0)
          /\ Sent(ongoing_last.chan) = ongoing_last.sent
    /\ (ongoing_last.op = "stop" /\ ongoing_last.pre # "Running") =>
          /\ running_state = ongoing_last.pre
          /\ ongoing_last.sent = 0
    /\ (ongoing_last.pre = "ShallStop" /\ running_state # "ShallStop") =>
          /\ ongoing_last.op = "free"
          /\ running_state = "Stopped"

\* C2 witness: the Receiver took the one signal of its channel, and a second
\* stop_ongoing has just found ShallStop.
C2_Witness ==
    /\ ongoing_last.op = "stop"
    /\ ongoing_last.pre = "ShallStop"
    /\ \E c \in Chans : got[c] = 1

\* C3: shall_stop_ongoing answers false exactly when an operation is
\* allocated and no stop was requested for it, which is the state Running;
\* it answers true before any allocation, after a stop and after a free.
C3_ShallStopIffNotRunning ==
    /\ (running_state = "Running") = (live = 1 /\ ~stop_req)
    /\ ongoing_last.op = "shall_stop" =>
          /\ ongoing_last.ok = ~(live = 1 /\ ~stop_req)
          /\ ongoing_last.ok = (ongoing_last.pre # "Running")

\* C3 witness: shall_stop_ongoing has just answered false for the second
\* operation allocated.
C3_Witness ==
    /\ ongoing_last.op = "shall_stop"
    /\ ~ongoing_last.ok
    /\ nchan = 2

\* ------------------------------------------------------------ claims C4-C5

\* C4 as stated: once a start_io has completed on a configured Context with
\* no stop_io since, exactly one Scheduler has been started and is stored.
C4_AsStated ==
    (configured /\ start_done >= 1) => (started_epoch = 1 /\ scheduler # 0)

\* C4: start_io is idempotent: with no stop_io in between, however many
\* start_io calls ran, at most one Scheduler was started, it is the one
\* stored, and a call that found the slot occupied started no worker and left
\* the slot alone; the slot is empty after a start_io only when every
\* Scheduler::start since the last stop_io failed.
C4_StartIoIdempotent ==
    /\ started_epoch <= 1
    /\ (scheduler # 0) = (started_epoch = 1)
    /\ (start_done >= 1 /\ ~start_failed) => scheduler # 0
    /\ (io_last.op = "start" /\ io_last.slot # 0) =>
          /\ io_last.new = 0
          /\ scheduler = io_last.slot
    /\ Cardinality({s \in Scheds : workers[s] > 0 /\ ~stopping[s]}) <= 1

\* C4 witness: a second start_io has just completed and found the slot
\* occupied by the Scheduler the first one started.
C4_Witness ==
    /\ start_done = 2
    /\ io_last.op = "start"
    /\ io_last.slot # 0
    /\ scheduler = io_last.slot
    /\ workers[scheduler] = NumWorkers

\* C5: start_io and stop_io serialize on the slot's write lock: the workers of
\* at most one Scheduler run at any time; while a stop_io joins the Scheduler
\* it took, it holds the lock and the slot stays empty; when stop_io returns,
\* every worker of that Scheduler has ended and the slot is empty.
C5_StartStopSerialize ==
    /\ Cardinality({s \in Scheds : workers[s] > 0}) <= 1
    /\ \A t \in Tasks : io_pc[t] = "stop_join" =>
          /\ sched_lock = t
          /\ scheduler = 0
    /\ io_last.op = "stop_done" =>
          /\ workers[io_last.sched] = 0
          /\ scheduler = 0
    /\ (io_last.op = "start" /\ io_last.new > 0) =>
          \A s \in Scheds : s # io_last.sched => workers[s] = 0

\* C5 witness: a stop_io has just returned while another task's start_io was
\* waiting for the lock.
C5_Witness ==
    /\ io_last.op = "stop_done"
    /\ \E t \in Tasks : io_pc[t] = "start_wait"


\* ----------------------------------------------------------- claims C6-C10

Steps(msgs) == [i \in DOMAIN msgs |-> msgs[i].step]
IsPrefix(s, t) == Len(s) <= Len(t) /\ s = SubSeq(t, 1, Len(s))

\* The contact handshake, in order.
ContactRun == <<"vc-request", "vc-auth-required", "vc-request-with-auth",
                "vc-contact-confirm", "vc-contact-confirm-received">>

\* C6: in a contact Secure-Join run (one scan of the contact QR code) whose
\* messages are delivered in order, the inviter holds the joiner as verified
\* exactly from the delivery of vc-request-with-auth on and the joiner holds
\* the inviter as verified exactly from the delivery of vc-contact-confirm
\* on; after vc-contact-confirm-received each side holds the other's key as
\* verified and each side's 1:1 chat has the verified info message.
C6_ContactRunVerifies ==
    (joins = <<"contact">> /\ IsPrefix(delivered, ContactRun)) =>
        /\ IsVerified(alice, "bob") <=> Len(delivered) >= 3
        /\ IsVerified(bob, "alice") <=> Len(delivered) >= 4
        /\ Len(delivered) = 5 =>
              /\ alice.peers["bob"].vk = "KB"
              /\ bob.peers["alice"].vk = "KA"
              /\ "verified" \in alice.info["bob"]
              /\ "verified" \in bob.info["alice"]

\* C6 witness: the five messages of one contact run were delivered in order
\* and both sides are verified.
C6_Witness ==
    /\ joins = <<"contact">>
    /\ delivered = ContactRun
    /\ IsVerified(alice, "bob")
    /\ IsVerified(bob, "alice")

\* A check of request-with-auth fails on message m in the inviter's state:
\* the fingerprint header is missing or is not the fingerprint of the
\* sender's key, the message is not encrypted and signed with it, the auth
\* token is missing or not stored, or no peerstate has the fingerprint.
SomeCheckFails(dev, m) ==
    LET d1 == ApplyAutocrypt(dev, m) IN
    \/ m.fp \notin Keys
    \/ ~(WasEncrypted(dev, m) /\ m.fp \in Signatures(dev, m))
    \/ d1.peers[m.from].pk # m.fp
    \/ m.auth = NoHdr
    \/ m.auth \notin dev.auth
    \/ \A a \in Addrs : d1.peers[a].pk # m.fp

\* C7 as stated: whenever a check of a {vc,vg}-request-with-auth fails, the
\* inviter adds the not-verified info message to the 1:1 chat with the
\* sender, leaves the peer's verification alone, sends nothing and does not
\* return Done.
C7_AsStated ==
    \A m \in RequestWithAuthMsgs :
        SomeCheckFails(alice, m) =>
            LET r == ReceiveImf(alice, m) IN
            /\ "not_verified" \in r.dev.info[m.from]
            /\ r.info = <<<<m.from, "not_verified">>>>
            /\ r.dev.peers = ApplyAutocrypt(alice, m).peers
            /\ r.sent = <<>>
            /\ r.ret # "Done"

\* The inviter holds a key for the sender once the message's Autocrypt
\* header has been applied.
SenderKeyKnown(dev, m) == ApplyAutocrypt(dev, m).peers[m.from].pk # NoKey

AuthRequiredFor(m) == IF JoinVg(m.step) THEN "vg-auth-required" ELSE "vc-auth-required"

\* C8 as stated: on a {vc,vg}-request the inviter sends auth-required and
\* returns Done if and only if the invite number is present and stored;
\* otherwise it sends nothing, emits no progress and returns Ignore.
C8_AsStated ==
    \A m \in RequestMsgs :
        LET r == ReceiveImf(alice, m) IN
        IF m.inv # NoHdr /\ m.inv \in alice.inv
        THEN r.ret = "Done" /\ Steps(r.sent) = <<AuthRequiredFor(m)>>
        ELSE r.ret = "Ignore" /\ r.sent = <<>> /\ r.progress = <<>>

\* C8: on a {vc,vg}-request whose invite number is absent or not stored the
\* inviter sends nothing, emits no progress and returns Ignore; when it is
\* present and stored the inviter emits progress 300 and, holding a key for
\* the sender, sends auth-required to the sender, encrypted to that key, and
\* returns Done; holding no key, it sends nothing and fails with an error.
C8_RequestAnswered ==
    /\ \A m \in RequestMsgs :
          LET r == ReceiveImf(alice, m) IN
          IF m.inv # NoHdr /\ m.inv \in alice.inv
          THEN /\ r.progress = <<300>>
               /\ IF SenderKeyKnown(alice, m)
                  THEN /\ r.ret = "Done"
                       /\ Steps(r.sent) = <<AuthRequiredFor(m)>>
                       /\ r.sent[1].to = m.from
                       /\ r.sent[1].encto = ApplyAutocrypt(alice, m).peers[m.from].pk
                  ELSE r.ret = "Err" /\ r.sent = <<>>
          ELSE r.ret = "Ignore" /\ r.sent = <<>> /\ r.progress = <<>>
    /\ (sj_out.op = "recv" /\ sj_out.step = "request") =>
          /\ sj_out.ret \in {"Done", "Ignore", "Err"}
          /\ sj_out.ret = "Done" <=> Len(sj_out.sent) = 1
          /\ sj_out.ret = "Ignore" <=> sj_out.progress = <<>>

\* C8 witness: a vc-request has just been answered with vc-auth-required.
C8_Witness ==
    /\ sj_out.op = "recv"
    /\ sj_out.step = "request"
    /\ sj_out.ret = "Done"
    /\ sj_out.sent = <<"vc-auth-required">>
    /\ sj_out.progress = <<300>>

\* The inviter accepts request-with-auth m: it passes every check.
Accepted(r) == 600 \in {r.progress[i] : i \in DOMAIN r.progress}

OwnKeyUsed(dev, m) == m.encto = dev.key /\ m.sig = dev.key

\* C10: a device observing a self-sent vg-member-added, vc-contact-confirm,
\* vg-member-added-received or vc-contact-confirm-received sends nothing and
\* never returns Done; when the message is encrypted and signed with the own
\* key and its fingerprint is the public key of a stored peerstate, that peer
\* is marked verified and the result is Propagate for vg-member-added and
\* Ignore for the rest; when the encryption or signature check fails no
\* peer is marked verified.
C10_ObserverVerifies ==
    /\ \A m \in SelfMsgs :
          m.step \in ObservedSteps =>
              LET d1 == ApplyAutocrypt(alice, m)
                  r == ReceiveImf(alice, m)
                  known == {a \in Addrs : d1.peers[a].pk = m.fp}
              IN /\ r.sent = <<>>
                 /\ r.ret # "Done"
                 /\ (OwnKeyUsed(alice, m) /\ m.fp \in Keys /\ known # {}) =>
                       /\ \E a \in known : r.dev.peers[a].vk = m.fp
                       /\ r.ret = IF m.step = "vg-member-added"
                                  THEN "Propagate" ELSE "Ignore"
                 /\ ~OwnKeyUsed(alice, m) => r.dev.peers = d1.peers
    /\ sj_out.op = "observe" => (sj_out.sent = <<>> /\ sj_out.ret # "Done")

\* C10 witness: an observed vc-contact-confirm has just been accepted and bob
\* is verified.
C10_Witness ==
    /\ sj_out.op = "observe"
    /\ sj_out.step = "vc-contact-confirm"
    /\ sj_out.ret = "Ignore"
    /\ sj_out.info = <<>>
    /\ alice.peers["bob"].vk = "KB"
    /\ "not_verified" \notin alice.info["bob"]


\* ---------------------------------------------------------- claims C11-C14

\* The group handshake, in order.
GroupRun == <<"vg-request", "vg-auth-required", "vg-request-with-auth",
              "vg-member-added", "vg-member-added-received">>

\* C11: in a group Secure-Join run (one scan of the group QR code, messages
\* delivered in order) the 1:1 chats of inviter and joiner are never visible
\* and never get the verified info message; from vg-request-with-auth on the
\* joiner is a member of the inviter's group and the inviter's group chat has
\* the verified info message; from vg-member-added on the joiner's group chat
\* has it too and the joiner holds the group.
C11_GroupRunJoins ==
    (joins = <<TheGroup>> /\ IsPrefix(delivered, GroupRun)) =>
        /\ alice.chat["bob"] # "visible"
        /\ bob.chat["alice"] = "hidden"
        /\ "verified" \notin alice.info["bob"]
        /\ "verified" \notin bob.info["alice"]
        /\ TheGroup \in bob.groups
        /\ Len(delivered) >= 1 => alice.chat["bob"] = "hidden"
        /\ ("bob" \in alice.members) <=> Len(delivered) >= 3
        /\ ("verified" \in alice.ginfo) <=> Len(delivered) >= 3
        /\ ("verified" \in bob.ginfo) <=> Len(delivered) >= 4
        /\ Len(delivered) = 5 =>
              /\ IsVerified(alice, "bob")
              /\ IsVerified(bob, "alice")

\* C11 witness: the five messages of one group run were delivered in order
\* and bob is a member.
C11_Witness ==
    /\ joins = <<TheGroup>>
    /\ delivered = GroupRun
    /\ "bob" \in alice.members
    /\ "verified" \in bob.ginfo


NonDecreasing(s) == \A i, j \in DOMAIN s : i < j => s[i] <= s[j]
Values(s) == {s[i] : i \in DOMAIN s}

\* One scan of a QR code whose messages are delivered in order.
InOrderRun ==
    \/ joins = <<"contact">> /\ IsPrefix(delivered, ContactRun)
    \/ joins = <<TheGroup>> /\ IsPrefix(delivered, GroupRun)

\* C12 over every delivery order: the inviter progress values for the contact
\* never decrease over the handshake messages the inviter handles.
C12_AnyOrder == NonDecreasing(inviter_log)

\* C12: every inviter progress value lies in [0, 1000], 0 is not emitted
\* without an error and 1000 is emitted only when the contact is verified;
\* over the steps of one handshake, handled in order, the values never
\* decrease.
C12_ProgressMonotonic ==
    /\ Values(inviter_log) \subseteq {300, 600, 800, 1000}
    /\ \A v \in Values(inviter_log) : 0 <= v /\ v <= 1000
    /\ 1000 \in Values(inviter_log) => IsVerified(alice, "bob")
    /\ InOrderRun => NonDecreasing(inviter_log)

\* C12 witness: a group run delivered in order has emitted 300, 600, 800 and
\* 1000.
C12_Witness ==
    /\ joins = <<TheGroup>>
    /\ delivered = GroupRun
    /\ inviter_log = <<300, 600, 800, 1000>>


\* The inviter behind a scan, and what it is scanned for.
InviterOf(q) == IF q = "claire" THEN "claire" ELSE "alice"
InviterKeyOf(q) == IF q = "claire" THEN "KC" ELSE "KA"
ChatOf(q) == IF q = TheGroup THEN TheGroup ELSE InviterOf(q)
RequestOf(q) == IF q = TheGroup THEN "vg-request" ELSE "vc-request"
RequestWithAuthOf(q) ==
    IF q = TheGroup THEN "vg-request-with-auth" ELSE "vc-request-with-auth"

\* C13: dc_join_securejoin called while the join with claire, who never
\* answered, is still pending succeeds: it returns the chat of the new
\* join, the first handshake message to the new inviter is sent, and the
\* joiner state tracks the new inviter only.
C13_NewScanSupersedes ==
    (sj_out.op = "join" /\ Len(joins) = 2 /\ joins[1] = "claire") =>
        LET q == joins[2] IN
        /\ sj_out.ret = ChatOf(q)
        /\ Len(sj_out.sent) = 1
        /\ sj_out.sent[1] \in {RequestOf(q), RequestWithAuthOf(q)}
        /\ \E m \in net : m.step = sj_out.sent[1] /\ m.to = InviterOf(q)
        /\ bob.bobstate.addr = InviterOf(q)
        /\ bob.bobstate.fp = InviterKeyOf(q)
        /\ bob.bobstate.grp = (IF q = TheGroup THEN TheGroup ELSE NoHdr)
        /\ bob.chat[InviterOf(q)] # "none"

\* C13 witness: bob scanned claire's code and then alice's contact code.
C13_Witness ==
    /\ sj_out.op = "join"
    /\ joins = <<"claire", "contact">>
    /\ sj_out.ret = "alice"
    /\ bob.bobstate.addr = "alice"

\* The contact handshake when the request is skipped.
KnownKeyRun == <<"vc-request-with-auth", "vc-contact-confirm",
                 "vc-contact-confirm-received">>

RequestSent == \E m \in net : m.step \in {"vc-request", "vg-request"}

\* C14: a joiner that holds a peerstate with the key of the scanned QR code
\* sends request-with-auth as its only first message, encrypted and signed,
\* with the auth token and its own fingerprint, and emits progress 400; no
\* request is sent, and the run delivered in order ends with both sides
\* verified.
C14_KnownKeySkipsRequest ==
    /\ (/\ Len(joins) = 1
        /\ joins[1] \in QrKinds
        /\ delivered = <<>>
        /\ bob.peers["alice"].pk = "KA") =>
          LET q == joins[1] IN
          /\ sj_out.op = "join" =>
                /\ sj_out.sent = <<RequestWithAuthOf(q)>>
                /\ sj_out.progress = <<400>>
          /\ ~RequestSent
          /\ net # {}
          /\ \A m \in net :
                /\ m.step = RequestWithAuthOf(q)
                /\ m.to = "alice"
                /\ m.encto = "KA"
                /\ m.sig = "KB"
                /\ m.auth = AuthOf(q)
                /\ m.fp = "KB"
    /\ (joins = <<"contact">> /\ ~RequestSent /\ IsPrefix(delivered, KnownKeyRun)) =>
          /\ IsVerified(alice, "bob") <=> Len(delivered) >= 1
          /\ IsVerified(bob, "alice") <=> Len(delivered) >= 2
          /\ Len(delivered) = 3 =>
                /\ alice.peers["bob"].vk = "KB"
                /\ bob.peers["alice"].vk = "KA"

\* C14 witness: bob knew alice's key, skipped the request, and the three
\* remaining messages were delivered in order.
C14_Witness ==
    /\ joins = <<"contact">>
    /\ ~RequestSent
    /\ delivered = KnownKeyRun
    /\ IsVerified(alice, "bob")
    /\ IsVerified(bob, "alice")

\* ---------------------------------------------------------- claims C15-C16

\* A recipient has a key encrypt can use at the level the chat asks for.
HasUsableKey(o) == IsSome(o) /\ TakeKey(o[1], min_verified) # NoKey

\* C15 as stated: with e2ee_guaranteed = true, should_encrypt returns
\* Ok(true) if and only if every listed peer has a usable key, returns an
\* error otherwise, and never returns Ok(false).
C15_AsStated ==
    (enc_last.op = "should_encrypt" /\ enc_last.e2ee_guaranteed) =>
        /\ enc_last.ret # "false"
        /\ enc_last.ret = "true" <=>
               \A i \in 1..Len(peerstates) : HasUsableKey(peerstates[i])
        /\ enc_last.ret = "err" <=>
               \E i \in 1..Len(peerstates) : ~HasUsableKey(peerstates[i])

\* The orders in which n recipients can be listed.
Orders(n) == {f \in [1..n -> 1..n] : \A i, j \in 1..n : f[i] = f[j] => i = j}
Reordered(ps, f) == [i \in 1..Len(ps) |-> ps[f[i]]]

\* Votes for encryption: the own one and one per peer preferring Mutual.
Votes(ps) ==
    (IF prefer_encrypt = "Mutual" THEN 1 ELSE 0)
    + Cardinality({i \in 1..Len(ps) :
                     IsSome(ps[i]) /\ ps[i][1].prefer_encrypt = "Mutual"})

\* C16: with e2ee_guaranteed = false, should_encrypt never errors and
\* returns true if and only if every listed peer has a peerstate, no
\* peerstate has preference Reset and 2 * votes > N, where N is the number of
\* peers plus one; listing the peers in another order gives the same result.
C16_MajorityVote ==
    (enc_last.op = "should_encrypt" /\ ~enc_last.e2ee_guaranteed) =>
        /\ enc_last.ret \in {"true", "false"}
        /\ enc_last.ret = "true" <=>
               /\ \A i \in 1..Len(peerstates) : IsSome(peerstates[i])
               /\ \A i \in 1..Len(peerstates) :
                      IsSome(peerstates[i]) =>
                          peerstates[i][1].prefer_encrypt # "Reset"
               /\ 2 * Votes(peerstates) > Len(peerstates) + 1
        /\ \A f \in Orders(Len(peerstates)) :
               ShouldEncrypt(prefer_encrypt, FALSE, Reordered(peerstates, f))
                   = enc_last.ret

\* should_encrypt answered true without a guarantee for a list of several
\* peers that do not all prefer Mutual.
C16_Witness ==
    /\ enc_last.op = "should_encrypt"
    /\ ~enc_last.e2ee_guaranteed
    /\ enc_last.ret = "true"
    /\ Len(peerstates) >= 2
    /\ \E i \in 1..Len(peerstates) :
           /\ IsSome(peerstates[i])
           /\ peerstates[i][1].prefer_encrypt = "NoPreference"

\* -------------------------------------------------------------- claim C17

\* try_decrypt returned Ok for a message that was not encrypted and is not
\* a multipart/report, from a sender with a stored peerstate.
Unencrypted(mail, r) ==
    /\ r.ret = "Ok"
    /\ ~r.out_mail
    /\ ~ContainsReport(mail)
    /\ IsSome(peerstate_db[mail.from])

RlElapsed == DurationSinceOrZero(rl_last.at, rl_last.before.last_update)
RlDecayed ==
    F64SubMax0(rl_last.before.current_value, F64Mul(Rate, AsSecsF64(RlElapsed)))

\* C18: can_send returns true if and only if the stored consumption, decayed
\* by quota / window per elapsed second and never below zero, is at most
\* quota; the consumption it leaves is the decayed one, nothing is added.
C18_CanSendIffWithinQuota ==
    rl_last.op = "can_send" =>
        /\ rl_last.ok <=> F64Le(RlDecayed, Quota)
        /\ current_value = RlDecayed
        /\ F64Le(current_value, rl_last.before.current_value)
        /\ last_update = rl_last.at

\* can_send has answered false for a bucket that had decayed since its
\* last update.
C18_Witness ==
    /\ rl_last.op = "can_send"
    /\ ~rl_last.ok
    /\ RlElapsed # DurZero
    /\ current_value # rl_last.before.current_value

\* C19: send applies the decay and then adds 1.0 to the consumption whether
\* or not the bucket is over quota, it is never refused, and a send made
\* over quota makes until_can_send at the same moment strictly longer.
C19_SendAlwaysAddsOne ==
    rl_last.op = "send" =>
        /\ rl_last.ok
        /\ current_value = F64Add(RlDecayed, F64One)
        /\ last_update = rl_last.at
        /\ ~F64Le(RlDecayed, Quota) =>
               LET unsent == [last_update |-> rl_last.at,
                              current_value |-> RlDecayed]
                   w0 == UntilCanSendAt(unsent, rl_last.at, from_secs_f64).ret
                   w1 == UntilCanSendAt(Bucket, rl_last.at, from_secs_f64).ret
               IN  DurLe(w0, w1) /\ w0 # w1

\* A send was made over quota after the bucket had decayed.
C19_Witness ==
    /\ rl_last.op = "send"
    /\ ~F64Le(RlDecayed, Quota)
    /\ RlElapsed # DurZero
    /\ ~F64Le(current_value, Quota)

\* A Duration in nanoseconds.
DurNanos(t) ==
    BigAdd(BigMul(BigOfInt(t.secs), BigNanosPerSec), BigOfInt(t.nanos))

\* The wait is (value - quota) * window / quota seconds to the nanosecond:
\* it differs by less than one nanosecond from the exact quotient, for a
\* value above quota.  Both sides are scaled by quota and by 2^-e of the
\* value's unit 2^e.
WaitIsExact(wait, value) ==
    LET e == MinOf(value.e, Quota.e)
        over == BigSub(F64At(value, e), F64At(Quota, e))
        exact == BigMul(over, DurNanos(Window))
        got3 == BigShl(BigMulSmall(DurNanos(wait), 3), 0 - e)
        one3 == BigShl(BigOfInt(3), 0 - e)
    IN  /\ BigCmp(got3, BigAdd(exact, one3)) < 0
        /\ BigCmp(exact, BigAdd(got3, one3)) < 0

\* C20 as stated: until_can_send returns zero when the decayed consumption
\* is at most quota and otherwise (current_value - quota) * window / quota
\* seconds; after waiting exactly that long with no send can_send is true,
\* and after waiting one nanosecond less, or not at all, it is false.
C20_AsStated ==
    rl_last.op = "until_can_send" =>
        /\ F64Le(current_value, Quota) => rl_last.wait = DurZero
        /\ ~F64Le(current_value, Quota) =>
               WaitIsExact(rl_last.wait, current_value)
        /\ CanSendAt(Bucket, DurAdd(rl_last.at, rl_last.wait)).ret
        /\ rl_last.wait # DurZero =>
               /\ ~CanSendAt(Bucket, rl_last.at).ret
               /\ ~CanSendAt(Bucket,
                             DurAdd(rl_last.at,
                                    DurSub(rl_last.wait, Dur(0, 1)))).ret

\* C21 as stated: with window = 60 s and quota = 3, after a burst made on an
\* empty bucket can_send allows the first, the second and the third send,
\* and it allows the fourth only when at least 20 s have passed since the
\* third.
C21_AsStated ==
    (rl_last.op = "can_send" /\ rl_sent.at = DurZero) =>
        /\ rl_sends < 3 => rl_last.ok
        /\ (rl_sends = 3 /\ rl_last.ok) => DurLe(Dur(20, 0), rl_last.at)

\* C22 as stated: whatever the number of earlier sends, can_send is true and
\* until_can_send is zero once window seconds have passed since the last
\* send.
C22_AsStated ==
    (rl_sends > 0 /\ DurLe(DurAdd(rl_sent.at, Window), rl_last.at)) =>
        /\ rl_last.op = "can_send" => rl_last.ok
        /\ rl_last.op = "until_can_send" => rl_last.wait = DurZero

\* C22 as amended: when the last send was made while can_send was true,
\* can_send is true and until_can_send is zero once window seconds have
\* passed since that send.
C22_QuietAfterAllowedSend ==
    (rl_sends > 0 /\ rl_sent.allowed
        /\ DurLe(DurAdd(rl_sent.at, Window), rl_last.at)) =>
        /\ rl_last.op = "can_send" => rl_last.ok
        /\ rl_last.op = "until_can_send" => rl_last.wait = DurZero

\* A fourth send was made at once after three, on a full bucket, and
\* until_can_send has answered a full window later.
C22_Witness ==
    /\ rl_sends = 4
    /\ rl_sent.at = DurZero
    /\ rl_sent.allowed
    /\ rl_last.op = "until_can_send"
    /\ rl_last.at = Window
    /\ rl_last.before.current_value = F64OfInt(4)

\* ------------------------------------------------------------ claims C23-C26

\* The rows the last set put into the table locations.
NewRows == (loc_out.nlocs + 1)..Len(locations)

\* C23: send_locations_to_chat(chat, seconds) with seconds > 0 that returns
\* Ok leaves the window of the chat at begin = now and until = now + seconds,
\* whatever it was, interrupts the location loop, and puts the
\* streaming-enabled message into the chat if and only if the chat was not
\* streaming before (its locations_send_until was not after now); no other
\* chat's window changes.
C23_EnableSetsWindow ==
    (loc_out.op = "send_locations_to_chat" /\ loc_out.seconds > 0
        /\ loc_out.ret = "ok") =>
        /\ loc_chats[loc_out.chat].begin = loc_out.at
        /\ loc_chats[loc_out.chat].until = loc_out.at + loc_out.seconds
        /\ loc_out.interrupt
        /\ ("enabled" \in loc_out.msgs) <=> (loc_out.before.until <= loc_out.at)
        /\ "disabled" \notin loc_out.msgs

\* A chat whose first window was over was enabled again, with a second
\* enabled message, and later, still streaming, it has been given a new
\* window of 3600 s with no further message.
C23_Witness ==
    /\ loc_out.op = "send_locations_to_chat"
    /\ loc_out.seconds = 3600
    /\ loc_out.ret = "ok"
    /\ loc_out.before.until > loc_out.at
    /\ loc_out.before.begin < loc_out.at
    /\ loc_out.msgs = {}
    /\ loc_chats[loc_out.chat].until = loc_out.at + 3600
    /\ loc_log[loc_out.chat] = <<"enabled", "enabled">>

\* C24 as stated: send_locations_to_chat(chat, 0) that returns Ok leaves
\* begin = until = 0 and puts a disabled info message into the chat.
C24_AsStated ==
    (loc_out.op = "send_locations_to_chat" /\ loc_out.seconds = 0
        /\ loc_out.ret = "ok") =>
        /\ loc_chats[loc_out.chat].begin = 0
        /\ loc_chats[loc_out.chat].until = 0
        /\ "disabled" \in loc_out.msgs

\* C24 as amended: send_locations_to_chat(chat, 0) that returns Ok leaves
\* begin = until = 0, puts the disabled info message into the chat if and
\* only if the chat was streaming before (its locations_send_until was after
\* now), and does not interrupt the location loop.
C24_DisableClearsWindow ==
    (loc_out.op = "send_locations_to_chat" /\ loc_out.seconds = 0
        /\ loc_out.ret = "ok") =>
        /\ loc_chats[loc_out.chat].begin = 0
        /\ loc_chats[loc_out.chat].until = 0
        /\ ("disabled" \in loc_out.msgs) <=> (loc_out.before.until > loc_out.at)
        /\ "enabled" \notin loc_out.msgs
        /\ ~loc_out.interrupt

\* The window of a chat has been cleared after it was over: no disabled
\* message.
C24_Witness ==
    /\ loc_out.op = "send_locations_to_chat"
    /\ loc_out.seconds = 0
    /\ loc_out.ret = "ok"
    /\ loc_out.before.until > 0
    /\ loc_out.before.until <= loc_out.at
    /\ loc_out.msgs = {}
    /\ loc_chats[loc_out.chat] = NoWindow

\* What set does to the table: nothing at exactly (0, 0); otherwise one row
\* with the given point and the time of the call for each chat whose
\* window is live and whose INSERT succeeds.
SetInsertsRows ==
    /\ \A i \in 1..loc_out.nlocs : i <= Len(locations)
    /\ loc_out.point = <<0, 0>> => NewRows = {}
    /\ loc_out.point # <<0, 0>> =>
          /\ \A c \in loc_out.live \ loc_out.failing :
                 \E i \in NewRows : locations[i].chat_id = c
          /\ \A i \in NewRows :
                 /\ locations[i].chat_id \in loc_out.live \ loc_out.failing
                 /\ locations[i].latitude = loc_out.point[1]
                 /\ locations[i].longitude = loc_out.point[2]
                 /\ locations[i].timestamp = loc_out.at
                 /\ locations[i].from_id = ContactSelf
                 /\ \A j \in NewRows :
                        locations[j].chat_id = locations[i].chat_id => j = i

\* C25 as stated: set inserts one row for each chat whose window is live,
\* does nothing at exactly (0, 0), and returns true if and only if at least
\* one INSERT succeeded.
C25_AsStated ==
    loc_out.op = "set" =>
        /\ SetInsertsRows
        /\ (loc_out.ret = TRUE) <=> (NewRows # {})

\* C25 as amended: set inserts one row for each chat whose window is live,
\* does nothing at exactly (0, 0) and returns true there; at any other point
\* it returns true if and only if at least one INSERT succeeded.
C25_SetReturnsTrueAtZero ==
    loc_out.op = "set" =>
        /\ SetInsertsRows
        /\ loc_out.point = <<0, 0>> => loc_out.ret = TRUE
        /\ loc_out.point # <<0, 0>> => ((loc_out.ret = TRUE) <=> (NewRows # {}))

\* Two chats were streaming and set stored its point for one of them only,
\* the INSERT for the other one failing.
C25_Witness ==
    /\ loc_out.op = "set"
    /\ loc_out.live = LocChats
    /\ loc_out.failing = {10}
    /\ loc_out.ret = TRUE
    /\ Len(locations) = 1
    /\ locations[1].chat_id = 11

\* C26 as stated: a location stored by set for a chat that streams for
\* 3600 s, and for which the location loop has not posted a LocationOnly
\* message since, is at most 61 s old.
C26_AsStated ==
    \A c \in LocChats : \A i \in 1..Len(locations) :
        (/\ locations[i].chat_id = c
         /\ loc_chats[c].until - loc_chats[c].begin = 3600
         /\ loc_chats[c].begin <= locations[i].timestamp
         /\ locations[i].timestamp < loc_chats[c].until
         /\ loc_posted[c] < locations[i].timestamp)
            => loc_now - locations[i].timestamp <= 61

\* ------------------------------------------------------------------ claim C27

\* Kml::parse has read a document made from stored locations none of which
\* is in the future.
KmlParsedStored ==
    /\ kml_last.op = "parse"
    /\ \A i \in 1..Len(kml_last.src) :
          kml_last.src[i].timestamp <= kml_last.at

\* C27 as stated: serializing stored locations to KML (get_kml, or
\* get_message_kml for a single location) and parsing the result with
\* Kml::parse yields, for each of them, one location with the same
\* latitude, longitude, accuracy and timestamp, whenever their timestamps
\* are not in the future.
C27_AsStated == KmlParsedStored => kml_last.locations = kml_last.src

\* The round trip of get_kml on locations off the equator and off the
\* prime meridian whose timestamp is not 0.
KmlRoundTripOffAxes ==
    (/\ KmlParsedStored
     /\ kml_last.via = "get_kml"
     /\ \A i \in 1..Len(kml_last.src) :
           /\ kml_last.src[i].timestamp # 0
           /\ kml_last.src[i].latitude # 0
           /\ kml_last.src[i].longitude # 0)
        => kml_last.locations = kml_last.src
\* Such a round trip of two locations has been made.
KmlRoundTripMade ==
    /\ KmlParsedStored
    /\ kml_last.via = "get_kml"
    /\ Len(kml_last.locations) = 2
    /\ kml_last.locations = kml_last.src

\* ------------------------------------------------------------------ claim C28

\* Message m is a request-with-auth encrypted to the inviter, signed with
\* the key whose fingerprint its Secure-Join-Fingerprint header names, that
\* key being the key of the sender's peerstate, and its Secure-Join-Auth
\* header is a stored auth token.
AuthenticRequestWithAuth(dev, m) ==
    /\ m.step \in {"vc-request-with-auth", "vg-request-with-auth"}
    /\ m.encto = dev.key
    /\ m.fp \in Keys
    /\ m.sig = m.fp
    /\ ApplyAutocrypt(dev, m).peers[m.from].pk = m.fp
    /\ m.auth # NoHdr
    /\ m.auth \in dev.auth

\* The handshake step changes the verification of a peer: the verified key
\* of a peerstate after it (r: what the call did) differs from the one the
\* step found (d1: the device when the handler starts).
ChangesVerification(d1, r) ==
    \E x \in Addrs : r.dev.peers[x].vk # d1.peers[x].vk
\* The step raises an origin, sends vc-contact-confirm or a member-added
\* message, or adds a member to a group.
RaisesOrigin(d1, r) == \E x \in Addrs : r.dev.origin[x] # d1.origin[x]
SendsConfirm(r) ==
    \E i \in DOMAIN r.sent :
        r.sent[i].step \in {"vc-contact-confirm", "vg-member-added"}
AddsMember(d1, r) == r.dev.members # d1.members
\* The progress events of the step that are in ps.
EmitsProgress(r, ps) == \E i \in DOMAIN r.progress : r.progress[i] \in ps
\* What a successful request-with-auth does, with progress in ps.
MarksVerified(d1, r, ps) ==
    \/ ChangesVerification(d1, r)
    \/ RaisesOrigin(d1, r)
    \/ EmitsProgress(r, ps)
    \/ SendsConfirm(r)
    \/ AddsMember(d1, r)

\* C28 as stated: the inviter marks a peer verified, raises its origin,
\* emits progress 600 or more, sends vc-contact-confirm or adds the peer to
\* the group only while handling a request-with-auth that is encrypted,
\* signed by the fingerprint of its header, which is the fingerprint of the
\* sender's key, and whose auth token is stored.
C28_AsStated ==
    \A m \in InMsgs :
        \E r \in {ReceiveImf(alice, m)}, d1 \in {ApplyAutocrypt(alice, m)} :
            MarksVerified(d1, r, {600, 800, 1000})
                => AuthenticRequestWithAuth(alice, m)

\* C28: the inviter changes the verification of a peer, raises an origin,
\* emits progress 600, sends vc-contact-confirm or adds a peer to a group
\* only while handling a request-with-auth that is encrypted, signed by the
\* fingerprint of its header, which is the fingerprint of the sender's key,
\* and whose auth token is stored; progress 800 and 1000 come with such a
\* request or with a vg-member-added-received from a peer already verified.
C28_VerifiedOnlyByAuth ==
    \A m \in InMsgs :
        \E r \in {ReceiveImf(alice, m)}, d1 \in {ApplyAutocrypt(alice, m)} :
            /\ MarksVerified(d1, r, {600})
                   => AuthenticRequestWithAuth(alice, m)
            /\ EmitsProgress(r, {800, 1000})
                   => \/ AuthenticRequestWithAuth(alice, m)
                      \/ /\ m.step = "vg-member-added-received"
                         /\ d1.peers[m.from].vk # NoKey

\* C28 witness: a vc-request-with-auth has just been accepted: bob is
\* verified with his key, his origin is raised, and progress 600 and 1000
\* and vc-contact-confirm went out.
C28_Witness ==
    /\ sj_out.op = "recv"
    /\ sj_out.step = "request-with-auth"
    /\ sj_out.progress = <<600, 1000>>
    /\ sj_out.sent = <<"vc-contact-confirm">>
    /\ alice.peers["bob"].vk = "KB"
    /\ alice.origin["bob"] = OriginSecurejoinInvited

\* ------------------------------------------------------------ claims C29-C30

\* The lookup by the fingerprint of the Autocrypt header of the mail found
\* a stored peerstate of another address than From.
FoundAtOtherAddress(mail, found) ==
    /\ IsSome(mail.autocrypt)
    /\ IsSome(found)
    /\ found[1].public_key = mail.autocrypt[1].public_key
    /\ found[1].addr # mail.from

\* C29 as stated: when a message carries an Autocrypt header whose key
\* matches a stored peerstate of another address than From, try_decrypt
\* leaves the row of that peerstate as it was unless the message decrypted
\* with a valid signature.
C29_AsStated ==
    \A mail \in Mails : \A found \in Lookup(peerstate_db, mail) :
        FoundAtOtherAddress(mail, found) =>
            \E r \in {TryDecrypt(peerstate_db, mail, found)} :
                \/ r.out_mail /\ r.signatures # {}
                \/ r.db[found[1].addr] = peerstate_db[found[1].addr]

\* The mail decrypts and is signed with the key of the peerstate found,
\* carries a Chat-Version header and is later than the peerstate was seen.
AeapConditions(mail, p) ==
    /\ p.addr # mail.from
    /\ mail.body = "pgp"
    /\ mail.sig = p.public_key
    /\ mail.chat_version
    /\ mail.time > p.last_seen

\* The peerstate a full save of p under the address of the mail stores,
\* the header of the mail applied.
Readdressed(mail, p) ==
    [addr |-> mail.from,
     public_key |-> mail.autocrypt[1].public_key,
     prefer_encrypt |-> mail.autocrypt[1].prefer_encrypt,
     last_seen |-> mail.time,
     last_seen_autocrypt |-> mail.time]

\* C30: try_decrypt rewrites the address of the peerstate it found to the
\* From address if and only if From differs from the address of the
\* peerstate, the message has a valid signature, it has a Chat-Version
\* header and its time is later than last_seen of the peerstate; then the
\* row of From holds the peerstate with the new address and the header
\* applied; otherwise no row gets an address it did not have and the row of
\* From is not taken over by the peerstate found.
C30_AeapIffConditions ==
    \A mail \in Mails : \A found \in Lookup(peerstate_db, mail) :
        \E r \in {TryDecrypt(peerstate_db, mail, found)} :
            /\ \A a \in FromAddrs : IsSome(r.db[a]) => r.db[a][1].addr = a
            /\ IsSome(found) =>
                  IF AeapConditions(mail, found[1])
                  THEN r.db[mail.from] = Some(Readdressed(mail, found[1]))
                  ELSE found[1].addr # mail.from =>
                           r.db[mail.from] = peerstate_db[mail.from]

\* C30 witness: an address change has just been accepted: the row of the new
\* address holds the key of the row of the old address and the time of the
\* message.
C30_Witness ==
    /\ dec_last.op = "aeap"
    /\ IsSome(peerstate_db[dec_last.from])
    /\ peerstate_db[dec_last.from][1].last_seen = dec_last.time
    /\ \E a \in FromAddrs \ {dec_last.from} :
          /\ IsSome(peerstate_db[a])
          /\ peerstate_db[a][1].public_key
                 = peerstate_db[dec_last.from][1].public_key
          /\ peerstate_db[a][1].last_seen < dec_last.time

\* ------------------------------------------------------------------ claim C31

MatchedLayouts(mail) ==
    {l \in {"standard", "mixed_up", "attachment"} :
        \/ l = "standard" /\ IsSome(GetAutocryptMime(mail))
        \/ l = "mixed_up" /\ IsSome(GetMixedUpMime(mail))
        \/ l = "attachment" /\ IsSome(GetAttachmentMime(mail))}

\* C32: a PGP/MIME envelope that arrives as it was sent, with a text/plain
\* part put before its two parts under multipart/mixed, or as the second
\* part of a multipart/mixed after a text/plain part, has the same
\* application/octet-stream part selected by the probe and so the same
\* decryption result; and no MIME tree matches more than one of the three
\* layouts.
C32_SamePayloadOneLayout ==
    /\ Cardinality(MatchedLayouts(mime_mail)) <= 1
    /\ Cardinality(MatchedLayouts(mime_env)) <= 1
    /\ IsSome(GetAutocryptMime(mime_env)) =>
          /\ EncryptedPart(mime_env)[1].mimetype = "application/octet-stream"
          /\ \A m \in {mime_env, MixUp(mime_env), Attach(mime_env)} :
                /\ EncryptedPart(m) = EncryptedPart(mime_env)
                /\ DecryptMime(m) = DecryptMime(mime_env)
          /\ LayoutOf(MixUp(mime_env)) = "mixed_up"
          /\ LayoutOf(Attach(mime_env)) = "attachment"
          /\ (Len(mime_path) <= 1 /\ mime_out # NoMimeOut) =>
                /\ mime_out.part = GetAutocryptMime(mime_env)
                /\ mime_out.ret = DecryptMime(mime_env).ret
                /\ mime_out.out_mail = DecryptMime(mime_env).out_mail

\* An envelope that decrypts was turned into an attachment on its way and
\* was decrypted from there.
C32_Witness ==
    /\ IsSome(GetAutocryptMime(mime_env))
    /\ mime_path = <<"attachment">>
    /\ mime_out.layout = "attachment"
    /\ mime_out.out_mail

\* ------------------------------------------------------------ claim C33
\* A step of location_loop through maybe_send_locations.
LoopTick == loc_pc = "run" /\ loc_pc' = "wait"
\* What the step puts into chat c.
TickMessages(c) ==
    SubSeq(loc_log'[c], Len(loc_log[c]) + 1, Len(loc_log'[c]))
\* The window of chat c is active when the step begins.
ActiveWindow(c) ==
    loc_chats[c].begin > 0 /\ loc_chats[c].until > loc_now
\* An own location of the window that is not independent and has not been
\* sent is stored.
PendingLocation(c) ==
    \E i \in 1..Len(locations) :
        /\ locations[i].from_id = ContactSelf
        /\ locations[i].independent = 0
        /\ locations[i].timestamp >= loc_chats[c].begin
        /\ locations[i].timestamp > loc_chats[c].last_sent

\* C33 as stated: on each tick a chat with an active window gets exactly
\* one hidden LocationOnly message if a location is pending and at least
\* 60 s have passed since last_sent, and nothing otherwise.
C33_AsStated ==
    [][LoopTick =>
          \A c \in LocChats :
              ActiveWindow(c) =>
                  TickMessages(c) =
                      IF /\ PendingLocation(c)
                         /\ loc_now - loc_chats[c].last_sent >= 60
                      THEN <<"LocationOnly">> ELSE <<>>]_vars

\* C33: on each tick a chat with an active window gets exactly one hidden
\* LocationOnly message if a location is pending and more than 60 s have
\* passed since last_sent, and nothing otherwise; a chat without an active
\* window never gets a LocationOnly message.
C33_PostedAfterMoreThan60 ==
    [][LoopTick =>
          \A c \in LocChats :
              IF ActiveWindow(c)
              THEN TickMessages(c) =
                      IF /\ PendingLocation(c)
                         /\ loc_now - loc_chats[c].last_sent > 60
                      THEN <<"LocationOnly">> ELSE <<>>
              ELSE \A i \in 1..Len(TickMessages(c)) :
                       TickMessages(c)[i] # "LocationOnly"]_vars

\* The first tick after the start has posted the pending location of a chat
\* that the earlier run left streaming.
C33_Witness ==
    /\ loc_pc = "wait"
    /\ loc_posted[10] = loc_now
    /\ loc_log[10] = <<"LocationOnly">>
    /\ loc_chats[10].begin = LocEpoch - 100
    /\ loc_chats[10].last_sent = loc_now
    /\ loc_now = LocEpoch
    /\ loc_calls = 0

\* ------------------------------------------------------------ claim C34
\* The least element of a nonempty set of numbers.
Least(S) == CHOOSE n \in S : \A k \in S : n <= k
\* The remaining windows of the chats with an active window.
RemainingWindows ==
    {loc_chats[c].until - loc_now : c \in {d \in LocChats : ActiveWindow(d)}}
\* 61 s minus the time since last_sent, for the chats that still have
\* pending locations after the tick: those that could not send yet.
SendDelays ==
    {61 - (loc_now - loc_chats[c].last_sent) :
         c \in {d \in LocChats :
                   /\ ActiveWindow(d)
                   /\ PendingLocation(d)
                   /\ loc_now - loc_chats[d].last_sent <= 60}}

DisabledAdded(c) ==
    Cardinality({i \in 1..Len(TickMessages(c)) :
                    TickMessages(c)[i] = "disabled"})
\* The window of chat c has run out and has not been cleared.
ExpiredWindow(c) == loc_chats[c].until > 0 /\ ~ActiveWindow(c)
\* The step ends the window of chat c.
WindowEnds(c) == loc_chats[c].until > 0 /\ loc_chats'[c].until = 0
\* What a tick does to the expired, the cleared and the active windows.
TickClearsExpired(c) ==
    LoopTick =>
        IF ExpiredWindow(c)
        THEN /\ loc_chats'[c].begin = 0
             /\ loc_chats'[c].until = 0
             /\ DisabledAdded(c) = 1
        ELSE /\ loc_chats'[c].begin = loc_chats[c].begin
             /\ loc_chats'[c].until = loc_chats[c].until
             /\ DisabledAdded(c) = 0

\* C35 as stated: a tick clears every expired window with exactly one
\* disabled info message, a cleared window gets no further disabled
\* message, and no window ends without a disabled info message.
C35_AsStated ==
    [][\A c \in LocChats :
          /\ TickClearsExpired(c)
          /\ WindowEnds(c) => DisabledAdded(c) = 1]_vars

\* C35: a tick clears every window that has expired, with exactly one
\* disabled info message, and leaves the other windows alone without a
\* disabled message; a disabled message is only ever added when a window
\* ends; and a window ends without one only when send_locations_to_chat is
\* called for the chat after the window has expired and before a tick has
\* cleared it.
C35_ExpiredClearedOnce ==
    [][\A c \in LocChats :
          /\ TickClearsExpired(c)
          /\ DisabledAdded(c) <= 1
          /\ DisabledAdded(c) = 1 => WindowEnds(c)
          /\ (WindowEnds(c) /\ DisabledAdded(c) = 0) =>
                /\ ExpiredWindow(c)
                /\ loc_calls' = loc_calls + 1
                /\ loc_out'.op = "send_locations_to_chat"
                /\ loc_out'.chat = c
                /\ loc_out'.seconds = 0
          /\ (ExpiredWindow(c) /\ loc_chats'[c].until > loc_now) =>
                /\ loc_out'.op = "send_locations_to_chat"
                /\ loc_out'.chat = c
                /\ loc_out'.seconds > 0
                /\ DisabledAdded(c) = 0]_vars

\* The tick at the end of a window set by this run has cleared it, and the
\* chat holds the enabled message and, after it, one disabled message.
C35_Witness ==
    /\ loc_pc = "wait"
    /\ loc_now = LocEpoch + LongWindow
    /\ loc_chats[10] = [NoWindow EXCEPT !.last_sent = loc_chats[10].last_sent]
    /\ Len(loc_log[10]) >= 2
    /\ loc_log[10][Len(loc_log[10])] = "disabled"
    /\ \E i \in 1..Len(loc_log[10]) - 1 : loc_log[10][i] = "enabled"
    /\ Cardinality({i \in 1..Len(loc_log[10]) :
                       loc_log[10][i] = "disabled"}) = 1

\* ------------------------------------------------------------ claim C36
\* C36: the window that send_locations_to_chat(chat, seconds > 0) has set
\* is not cleared by the location loop before now + seconds, whatever tick
\* of the loop the call is interleaved with: while the call is the last one
\* made and its window has not run out, the window stands as the call
\* wrote it.
C36_AsStated ==
    (/\ loc_out.op = "send_locations_to_chat"
     /\ loc_out.seconds > 0
     /\ loc_out.ret = "ok"
     /\ loc_now < loc_out.at + loc_out.seconds) =>
        /\ loc_chats[loc_out.chat].begin = loc_out.at
        /\ loc_chats[loc_out.chat].until = loc_out.at + loc_out.seconds

\* ------------------------------------------------------------ claim C37
\* C37: every alloc_ongoing that succeeds makes a channel that no earlier
\* operation had, no channel ever carries more than one signal, so that
\* stop_ongoing never waits in send() with the write lock held; and the
\* channel of an operation for which no stop was made holds no signal and
\* has delivered none, whatever was sent to the operations before it.
C37_FreshChannelNeverBlocks ==
    /\ ~stop_blocked
    /\ \A c \in Chans : Sent(c) <= ChanCap
    /\ running_state = "Running" =>
          /\ cancel_sender = nchan
          /\ Sent(cancel_sender) = 0
    /\ (ongoing_last.op = "alloc" /\ ongoing_last.ok) =>
          /\ ongoing_last.chan = nchan
          /\ Sent(nchan) = 0
    /\ \A c \in Chans : Sent(c) > 0 => (c <= nchan /\ c # cancel_sender)

\* The signal of the first operation still lies in its channel, never
\* received, and stop_ongoing has sent the signal of the second operation
\* into the second channel without waiting.
C37_Witness ==
    /\ nchan = 2
    /\ queue[1] = 1
    /\ got[1] = 0
    /\ ongoing_last.op = "stop"
    /\ ongoing_last.chan = 2
    /\ ongoing_last.sent = 1
    /\ queue[2] = 1
    /\ ~stop_blocked

\* ------------------------------------------------------------ claim C38
\* C38: as long as free_ongoing has only been called by the task whose
\* alloc_ongoing had succeeded, at most one task holds an allocated
\* operation, and a task holds one exactly when the state is not Stopped;
\* free_ongoing leaves the state Stopped whatever state it found and
\* whoever called it.
C38_OneHolderIfOwnerFrees ==
    /\ ~stray =>
          /\ Cardinality(holds) <= 1
          /\ (holds = {}) = (running_state = "Stopped")
    /\ ongoing_last.op = "free" =>
          /\ running_state = "Stopped"
          /\ cancel_sender = 0

\* Only holders have freed; the second operation is held by task 2, a stop
\* was made for it, and an alloc_ongoing of the other task has just failed.
C38_Witness ==
    /\ ~stray
    /\ holds = {2}
    /\ nchan = 2
    /\ ongoing_last.op = "alloc"
    /\ ~ongoing_last.ok
    /\ ongoing_last.pre = "ShallStop"

\* ------------------------------------------------------------ claim C39
\* The inviter reports the verification: the progress event 600.
InviterReports(m, r) ==
    m.from # "alice" /\ \E i \in DOMAIN r.progress : r.progress[i] = 600
\* The observing device accepts a self-sent handshake message.
ObserverAccepts(m, r) ==
    /\ m.from = "alice"
    /\ m.step \in ObservedSteps
    /\ r.ret # "Err"
    /\ r.info = <<>>
\* The peer of the handshake a message belongs to.
PeerOf(m) == IF m.from = "alice" THEN m.to ELSE m.from
\* The verified key and the Mutual preference of the peer are stored.
VerifiedSaved(dev, c, fp) ==
    dev.peers[c].vk = fp /\ dev.peers[c].prefer = "Mutual"

\* C39: whenever the inviter reports the verification or the observer
\* accepts, the verified key of the peer and the preference Mutual have
\* been saved; when the save fails the handshake ends with the
\* not-verified message and without the report.
C39_AsStated ==
    \A m \in SaveMsgs, fails \in BOOLEAN :
        \E r \in {ReceiveImf([alice EXCEPT !.save_fails = fails], m)} :
            /\ (InviterReports(m, r) \/ ObserverAccepts(m, r)) =>
                   VerifiedSaved(r.dev, PeerOf(m), m.fp)
            /\ (fails /\ ~VerifiedSaved(r.dev, PeerOf(m), m.fp)) =>
                   ~InviterReports(m, r) /\ ~ObserverAccepts(m, r)

\* ------------------------------------------------------------ claim C40
\* The last call read the clock before the last update.
BackwardCall ==
    /\ rl_last.op \in {"can_send", "until_can_send"}
    /\ ~DurLe(rl_last.before.last_update, rl_last.at)
\* What is left of the remembered consumption after the time from the
\* remembered call to the last one, at quota per window.
DecayedMark ==
    F64SubMax0(rl_mark.value,
               F64Mul(Rate, AsSecsF64(DurSub(last_update, rl_mark.at))))

\* What the rounding of one f64 operation after another may take from the
\* bound: a millionth of a message.
F64Slack == F64Div(F64One, F64OfInt(1000 * 1000))

\* The last call read the clock right.
TimelyCall ==
    /\ rl_last.op \in {"can_send", "until_can_send"}
    /\ rl_last.at = clock
    /\ last_update = clock

\* C40: the consumption is never negative; a call whose clock reading is
\* earlier than the last update leaves the consumption as it was; and for
\* a call at time t1 and a later call at time t2 >= t1 with no send in
\* between, whatever calls with clock readings that had gone backwards
\* came in between, the consumption at t2 is at least the consumption at
\* t1 less quota/window times t2 - t1, or zero, up to the rounding of f64.
C40_AsStated ==
    /\ F64Le(F64Zero, current_value)
    /\ BackwardCall => current_value = rl_last.before.current_value
    /\ (rl_mark.set /\ TimelyCall) =>
          F64Le(F64SubMax0(DecayedMark, F64Slack), current_value)

=============================================================================
